---- MODULE Spec2Model ----
(***************************************************************************)
(* Verification model of ksmuvva/AI_tools:                                 *)
(*   - SophisticatedAgentClient (src/sophisticated_agent_client.py): the   *)
(*     locate/action/verify orchestration loop, the parsing of the         *)
(*     decision source's responses, the keyword fallback and the goal      *)
(*     completion check;                                                   *)
(*   - ErrorRecovery (src/Playwright_tools.py): the recovery ladder;       *)
(*   - PlaywrightTools (src/Playwright_tools.py): the multi-strategy       *)
(*     locator, the actions on elements (click, fill), the life cycle of   *)
(*     the browser session and the screenshot captures;                    *)
(*   - AccessibilityTester (src/accessiblity_tools.py): the run of the     *)
(*     engines, the deduplication of issues and the score of a report;     *)
(*   - ColorContrastChecker (src/accessiblity_tools.py): the parsing of    *)
(*     colors and the compliance thresholds.                               *)
(*                                                                         *)
(* Texts are sequences of tokens.  A token stands for a fragment of text   *)
(* (a word or a fixed phrase of a template); the tables LowerKw and CaseKw *)
(* say which of the substrings the program searches for occur in it.       *)
(***************************************************************************)
EXTENDS Integers, Sequences, FiniteSets, TLC

VARIABLES
    user_goal,             \* argument of sophisticated_llm_interaction
    conversation_history,  \* self.conversation_history: Seq of [role, content]
    step_count,            \* local step_count
    failure_count,         \* self.failure_count
    current_phase,         \* local current_phase
    pc,                    \* "idle" | "loop" | "done": position of the loop
    llm_response,          \* response text of the last consultation
    decision,              \* decision of the last iteration
    result,                \* AgentResult of the last executed step
    iteration,             \* what the last iteration did
    completion_check,      \* "none" | "yes" | "no": last _check_goal_completion
    llm_calls,             \* number of messages.create calls so far
    env,                   \* last choice of the environment (decision source, tool)
    parse_path,            \* which attempt of the parser produced the decision
    rec_context,           \* ErrorRecovery.recover: context and page facts
    rec_invoked,           \* strategies invoked by recover, in order
    rec_result,            \* value returned by recover
    loc_facts,             \* playwright_multi_strategy_locate: arguments and page facts
    loc_result,            \* value returned by playwright_multi_strategy_locate
    act_facts,             \* playwright_click / playwright_fill: arguments and page facts
    act_result,            \* value returned by the action
    session,               \* PlaywrightTools: playwright, browser, context, pages, browser_initialized
    world,                 \* the browser processes, the files written and the clock
    op,                    \* the last operation on the session
    codegen_sessions,      \* PlaywrightTools.codegen_sessions: session "session_n" under n
    console_logs,          \* PlaywrightTools.console_logs
    tool_result,           \* value returned by the last call of a session tool
    issues,                \* argument of _deduplicate_issues
    unique_issues,         \* value returned by _deduplicate_issues
    counts,                \* the violations, warnings and manual checks of a report
    score,                 \* value returned by _calculate_accessibility_score
    engine_run,            \* run_comprehensive_test: the engines asked for, what each does
    contrast               \* ColorContrastChecker: the arguments and the value of a call

vars == <<user_goal, conversation_history, step_count, failure_count,
          current_phase, pc, llm_response, decision, result, iteration,
          completion_check, llm_calls, env, parse_path,
          rec_context, rec_invoked, rec_result,
          loc_facts, loc_result, act_facts, act_result,
          session, world, op, codegen_sessions, console_logs, tool_result,
          issues, unique_issues, counts, score, engine_run, contrast>>

loopVars == <<step_count, failure_count, current_phase, pc, llm_response,
              decision, result, iteration, llm_calls, env, parse_path>>
recVars == <<rec_context, rec_invoked, rec_result>>
locVars == <<loc_facts, loc_result>>
\* the variables of the tool layer outside the recovery ladder
actVars == <<act_facts, act_result>>
sessVars == <<session, world, op, codegen_sessions, console_logs, tool_result>>
auditVars == <<issues, unique_issues, counts, score, engine_run, contrast>>
toolVars == <<locVars, actVars, sessVars, auditVars>>

(***************************************************************************)
(* Bounds of the model                                                     *)
(***************************************************************************)
\* iterations in which the environment chooses freely; afterwards it
\* repeats its last choice until the loop ends
FreeSteps == 2
\* messages appended to a transcript when the completion check is explored
\* on its own
MaxConv == 3

(***************************************************************************)
(* Program constants                                                       *)
(***************************************************************************)
max_steps == 30
max_failures == 3

(***************************************************************************)
(* Text                                                                    *)
(***************************************************************************)
\* substrings (of the lower-cased text) the program searches for
LowerKw(tok) ==
    CASE tok \in {"Navigate", "navigate", "playwright_navigate",
                  "Navigate to website", "Navigate to start automation",
                  "Successfully navigated", "successfully navigated"}
                                    -> {"navigate"}
      [] tok = "visit"              -> {"visit"}
      [] tok = "go to"              -> {"go to"}
      [] tok \in {"click", "playwright_click", "clicking", "click the button",
                  "Could not find any cookie consent button to click"}
                                    -> {"click"}
      [] tok = "clicked"            -> {"click", "clicked"}
      [] tok = "Find and click button" -> {"find", "click"}
      [] tok \in {"times", "9(x5000) times"} -> {"times"}
      [] tok = "remove"             -> {"remove"}
      [] tok = "removed"            -> {"remove", "removed"}
      [] tok \in {"Delete", "delete"} -> {"delete"}
      [] tok = "Find Delete button to remove element"
                                    -> {"find", "delete", "remove"}
      [] tok \in {"screenshot", "playwright_screenshot", "Take screenshot",
                  "Take screenshot to understand page state"}
                                    -> {"screenshot"}
      [] tok \in {"accessibility", "check_accessibility"}
                                    -> {"accessibility"}
      [] tok = "accessiblity"       -> {"accessiblity"}
      [] tok = "Run comprehensive accessibility audit"
                                    -> {"accessibility", "audit", "accessibility audit"}
      [] tok = "Accessibility test completed"
                                    -> {"accessibility", "accessibility test"}
      [] tok = "wcag"               -> {"wcag"}
      [] tok = "a11y"               -> {"a11y"}
      [] tok \in {"find", "playwright_find_by_role", "Find element by role",
                  "find the button"}
                                    -> {"find"}
      [] tok = "audit"              -> {"audit"}
      [] tok = "visual"             -> {"visual"}
      [] tok \in {"locate", "LOCATE elements first"} -> {"locate"}
      [] tok = "search for"         -> {"search for"}
      [] tok = "capture"            -> {"capture"}
      [] OTHER                      -> {}

\* kw in text.lower()
HasLower(text, kw) == \E i \in 1..Len(text) : kw \in LowerKw(text[i])
\* kw in text
HasCase(text, kw) ==
    LET \* case-sensitive substrings the program searches for
        CaseKw(tok) ==
            CASE tok = "Successfully navigated" -> {"Successfully navigated"}
              [] tok = "navigation completed"   -> {"navigation completed"}
              [] tok = "SUCCESS"                -> {"SUCCESS"}
              [] OTHER                          -> {}
    IN
                     \E i \in 1..Len(text) : kw \in CaseKw(text[i])
\* any(word in text.lower() for word in words)
AnyLower(text, words) == \E w \in words : HasLower(text, w)

RECURSIVE JoinTexts(_)
\* " ".join(texts)
JoinTexts(texts) ==
    IF texts = <<>> THEN <<>> ELSE Head(texts) \o JoinTexts(Tail(texts))

IsDigits(tok) == tok \in {"1", "2", "3"}
NumVal(tok) == CASE tok = "1" -> 1 [] tok = "2" -> 2 [] tok = "3" -> 3 [] OTHER -> 0
StartsTime(tok) == tok \in {"times", "time"}

(***************************************************************************)
(* Goal decomposition and goal completion (_check_goal_completion)         *)
(***************************************************************************)
RECURSIVE ScanCount(_, _)
\* the lazy part [^.]*?(\d+)\s*times? of the click pattern, scanning from
\* token k: the index of the count token of the match, 0 when there is none
ScanCount(text, k) ==
    LET HasDot(tok) == tok \in {".", "url.com"}
    IN
    IF k > Len(text) THEN 0
    ELSE IF IsDigits(text[k]) /\ k + 1 <= Len(text) /\ StartsTime(text[k + 1]) THEN k
    ELSE IF HasDot(text[k]) THEN 0
    ELSE ScanCount(text, k + 1)

RECURSIVE FindAllClick(_, _)
\* re.findall(r'click[^\s]*\s+[^.]*?(\d+)\s*times?', text) from token i on:
\* the counts of the non-overlapping matches, leftmost first
FindAllClick(text, i) ==
    IF i > Len(text) THEN <<>>
    ELSE IF "click" \in LowerKw(text[i]) /\ ScanCount(text, i + 1) # 0
         THEN <<NumVal(text[ScanCount(text, i + 1)])>>
              \o FindAllClick(text, ScanCount(text, i + 1) + 2)
         ELSE FindAllClick(text, i + 1)

\* f"click_{times}_times"
ClickTag(n) ==
    CASE n = 1 -> "click_1_times" [] n = 2 -> "click_2_times"
      [] n = 3 -> "click_3_times" [] OTHER -> "click_0_times"
\* step.startswith("click_") and step.endswith("_times")
IsClickTag(step) ==
    step \in {"click_0_times", "click_1_times", "click_2_times", "click_3_times"}
\* the keywords without the misspelt one
AccessibilityWords_NoTypo == {"accessibility", "a11y", "wcag"}
AccessibilityWords == {"accessibility", "a11y", "wcag", "accessiblity"}

\* required_steps of _check_goal_completion
RequiredSteps(goal) ==
    LET RemovalWords == {"remove", "delete"}
        NavigationWords == {"navigate", "go to", "visit"}
    IN
    (IF AnyLower(goal, NavigationWords) THEN <<"navigation">> ELSE <<>>)
    \o (IF FindAllClick(goal, 1) # <<>>
        THEN <<ClickTag(FindAllClick(goal, 1)[1])>> ELSE <<>>)
    \o (IF AnyLower(goal, RemovalWords) THEN <<"remove_element">> ELSE <<>>)
    \o (IF HasLower(goal, "screenshot") THEN <<"screenshot">> ELSE <<>>)
    \o (IF AnyLower(goal, AccessibilityWords) THEN <<"accessibility">> ELSE <<>>)

SeqRange(s) == {s[i] : i \in 1..Len(s)}

\* conversation_text
ConversationText(conversation) ==
    JoinTexts([i \in 1..Len(conversation) |-> conversation[i].content])

\* is step appended to completed_steps?
StepCompleted(step, text) ==
    LET \* int(step.split("_")[1])
        ClickTagTimes ==
            CASE step = "click_1_times" -> 1 [] step = "click_2_times" -> 2
              [] step = "click_3_times" -> 3 [] OTHER -> 0
        \* text.lower().count(kw): the tokens of the text in which kw occurs
        CountLower(kw) ==
            Cardinality({i \in 1..Len(text) : kw \in LowerKw(text[i])})
    IN
    CASE step = "navigation" ->
            HasCase(text, "Successfully navigated") \/ HasCase(text, "navigation completed")
      [] IsClickTag(step) ->
            CountLower("click") + CountLower("clicked") >= ClickTagTimes
      [] step = "remove_element" ->
            HasLower(text, "removed") \/ HasLower(text, "delete")
      [] step = "screenshot" -> HasLower(text, "screenshot")
      [] step = "accessibility" ->
            \/ HasLower(text, "accessibility audit")
            \/ HasLower(text, "accessibility test")
            \/ HasLower(text, "wcag")
      [] OTHER -> FALSE

_check_goal_completion(goal, conversation) ==
    LET \* conversation[-6:]
        LastSix ==
            IF Len(conversation) <= 6 THEN conversation
            ELSE SubSeq(conversation, Len(conversation) - 5, Len(conversation))
        \* completion_rate >= 1.0, with completion_rate = len(completed)/len(required)
        AllStepsCompleted ==
            LET \* completed_steps, given the required steps and conversation_text
                CompletedSteps(required, text) ==
                    SelectSeq(required, LAMBDA step : StepCompleted(step, text))
            IN
            \E text \in {ConversationText(conversation)} :
            \E required \in {RequiredSteps(goal)} :
                Len(CompletedSteps(required, text)) >= Len(required)
        \* the old heuristic: success_count over the recent messages
        SuccessCount ==
            Cardinality({i \in 1..Len(LastSix) :
                            HasCase(LastSix[i].content, "SUCCESS")})
    IN
    IF RequiredSteps(goal) = <<>>
    THEN SuccessCount >= 3
    ELSE AllStepsCompleted

\* the first message of the conversation
InitialMessage(goal) ==
    [role |-> "user",
     content |-> <<"GOAL:">> \o goal \o <<"Analyze this goal", "LOCATE elements first">>]

(***************************************************************************)
(* Decisions and the tool tables                                           *)
(***************************************************************************)
\* a decision record; "" stands for a missing key, "#nonstr" for a phase
\* that is no string, "#unhashable" for a tool that is a JSON list or object
Decision(a, ph, t, ns) == [action |-> a, phase |-> ph, tool |-> t, next_step |-> ns]
NoDecision == Decision("", "", "", "")

\* self.locator_tools, self.action_tools, self.utility_tools and
\* self.accessibility_tools (the entries the model uses)
locator_tools == {"playwright_find_by_role", "playwright_smart_text_locator",
                  "playwright_nth_element"}
accessibility_tools == {"check_accessibility", "playwright_accessibility_snapshot"}
all_tools ==
    LET utility_tools == {"playwright_navigate", "playwright_screenshot",
                          "playwright_get_visible_text"}
        action_tools == {"playwright_click", "unified_click", "unified_fill"}
    IN
             locator_tools \cup action_tools \cup utility_tools \cup accessibility_tools

\* hasattr(self.tools, tool_name): the methods of PlaywrightTools
ToolsHasAttr(tool_name) ==
    tool_name \in {"playwright_find_by_role", "playwright_smart_text_locator",
                   "playwright_nth_element", "playwright_click",
                   "playwright_navigate", "playwright_screenshot",
                   "playwright_get_visible_text", "playwright_accessibility_snapshot"}

\* the text of str(decision) or of a JSON object of the response
DecisionText(d) == <<"{", d.action, d.phase, d.tool, d.next_step>>

(***************************************************************************)
(* The keyword fallback (_create_sophisticated_fallback)                   *)
(***************************************************************************)
\* the marker of an exception that leaves a function
Raised == Decision("#raised", "", "", "")

\* response_lower = response.lower(), computed once, then the branches
_create_sophisticated_fallback(response) ==
    LET \* the branches of the fallback on response_lower
        FallbackDecision(response_lower) ==
            LET \* int(times_match.group(1)) raises ValueError: the run of digits is longer
                \* than the interpreter converts to an int (4300 digits by default)
                IntRaises(text) ==
                    LET \* re.search(r'(\d+)\s*times?', response_lower): the token in which the
                        \* first match starts, 0 when there is none
                        TimesMatch ==
                            LET starts == {i \in 1..Len(text) :
                                              \/ text[i] = "9(x5000) times"
                                              \/ IsDigits(text[i]) /\ i < Len(text) /\ StartsTime(text[i + 1])}
                            IN IF starts = {} THEN 0 ELSE CHOOSE i \in starts : \A j \in starts : i <= j
                    IN
                    TimesMatch # 0 /\ text[TimesMatch] = "9(x5000) times"
            IN
            LET \* the lower-cased, stripped text starts with one of the completion prefixes
                StartsWithCompletion(text) ==
                    LET CompletionPrefixes == {"task completed", "goal achieved", "finished:", "done:"}
                    IN
                    /\ text # <<>>
                    /\ \/ Head(text) \in CompletionPrefixes
                       \/ Head(text) \in {"Task completed", "Goal achieved"}
            IN
            IF StartsWithCompletion(response_lower)
            THEN Decision("complete", "", "", "")
            ELSE IF AnyLower(response_lower, {"accessibility", "wcag", "a11y", "audit", "accessiblity"})
            THEN Decision("plan", "action", "check_accessibility",
                          "Run comprehensive accessibility audit")
            ELSE IF AnyLower(response_lower, {"navigate", "go to", "visit"})
            THEN Decision("plan", "action", "playwright_navigate", "Navigate to website")
            ELSE IF HasLower(response_lower, "click") /\ HasLower(response_lower, "times")
            THEN IF IntRaises(response_lower)
                 THEN Raised
                 ELSE Decision("plan", "locate", "playwright_find_by_role", "Find and click button")
            ELSE IF AnyLower(response_lower, {"remove", "delete"})
            THEN Decision("plan", "locate", "playwright_find_by_role",
                          "Find Delete button to remove element")
            ELSE IF AnyLower(response_lower, {"screenshot", "visual", "capture"})
            THEN Decision("plan", "verify", "playwright_screenshot", "Take screenshot")
            ELSE IF AnyLower(response_lower, {"find", "locate", "search for"})
            THEN Decision("plan", "locate", "playwright_find_by_role", "Find element by role")
            ELSE Decision("plan", "action", "playwright_navigate", "Navigate to start automation")
    IN
    CHOOSE fallback \in {FallbackDecision(response_lower) : response_lower \in {response}} :
        TRUE

(***************************************************************************)
(* Parsing the response (_parse_and_validate_llm_response)                 *)
(*                                                                         *)
(* A response is a sequence of lines, a line a sequence of chunks.  A      *)
(* chunk is a piece of prose (kind "text") or a brace-delimited fragment   *)
(* (kind "obj"): valid   says that json.loads accepts the fragment,        *)
(* has_action that it decodes to a dict with the key "action", deep    *)
(* that its braces nest deeper than the pattern of the third attempt       *)
(* follows, and dec is the record it decodes to.                         *)
(***************************************************************************)
TextChunk(tok) ==
    [kind |-> "text", tok |-> tok, valid |-> FALSE, has_action |-> FALSE,
     deep |-> FALSE, dec |-> NoDecision]
ObjChunk(valid, has_action, deep, dec) ==
    [kind |-> "obj", tok |-> "", valid |-> valid, has_action |-> has_action,
     deep |-> deep, dec |-> dec]

\* all chunks of the lines, in order
Flatten(lines) == JoinTexts(lines)

\* a response: its lines and whether a markdown fence surrounds them
\* ("both_json": opened with the fence and "json", and closed; "open": opened
\* and never closed; "none").  FENCE stands for the three backquotes.
Response(fence, lines) == [fence |-> fence, lines |-> lines]
NoResponse == Response("none", <<>>)

\* cleaned: the stripped response, without a fence that surrounds it
Cleaned(response) ==
    IF response.fence = "open"
    THEN <<<<TextChunk("FENCE")>>>> \o response.lines
    ELSE response.lines

ResponseText(response) ==
    LET \* the raw text of a response, as it reaches the fallback and the history
        ChunkText(c) == IF c.kind = "text" THEN <<c.tok>> ELSE DecisionText(c.dec)
        flat == Flatten(response.lines) IN
    (IF response.fence = "none" THEN <<>> ELSE <<"FENCE">>)
    \o JoinTexts([i \in 1..Len(flat) |-> ChunkText(flat[i])])
    \o (IF response.fence = "both_json" THEN <<"FENCE">> ELSE <<>>)

\* json.loads(text) returns a dict with the key "action"
LoadsAction(chunks) ==
    Len(chunks) = 1 /\ chunks[1].kind = "obj" /\ chunks[1].valid /\ chunks[1].has_action

ObjIndexes(chunks) == {i \in 1..Len(chunks) : chunks[i].kind = "obj"}
Min(S) == CHOOSE x \in S : \A y \in S : x <= y
\* attempt 1: the whole cleaned string
Try1(cleaned) ==
    IF LoadsAction(Flatten(cleaned)) THEN <<Flatten(cleaned)[1].dec>> ELSE <<>>

\* attempt 2: the substring from the first "{" to the last "}"
Try2(cleaned) ==
    LET Max(S) == CHOOSE x \in S : \A y \in S : x >= y
        flat == Flatten(cleaned)
        objs == ObjIndexes(flat)
    IN IF objs # {} /\ LoadsAction(SubSeq(flat, Min(objs), Max(objs)))
       THEN <<flat[Min(objs)].dec>> ELSE <<>>

\* attempt 3: the fragments the pattern finds, in order; the first that loads
\* as a dict with an action (a deep fragment is matched only from its
\* inner braces on, which hold no decision)
Try3(cleaned) ==
    LET flat == Flatten(cleaned)
        ok == {i \in ObjIndexes(flat) : ~flat[i].deep /\ LoadsAction(<<flat[i]>>)}
    IN IF ok # {} THEN <<flat[Min(ok)].dec>> ELSE <<>>

\* attempt 4: the lines that start with "{" and end with "}", in order
Try4(cleaned) ==
    LET ok == {i \in 1..Len(cleaned) : LoadsAction(cleaned[i])}
    IN IF ok # {} THEN <<cleaned[Min(ok)][1].dec>> ELSE <<>>

\* which attempt yields the record, or "fallback"
ParsePath(response) ==
    LET cleaned == Cleaned(response) IN
    IF Try1(cleaned) # <<>> THEN "try1"
    ELSE IF Try2(cleaned) # <<>> THEN "try2"
    ELSE IF Try3(cleaned) # <<>> THEN "try3"
    ELSE IF Try4(cleaned) # <<>> THEN "try4"
    ELSE "fallback"

\* the record of the attempt that succeeds
ParsedRecord(response) ==
    LET cleaned == Cleaned(response) IN
    CASE ParsePath(response) = "try1" -> Try1(cleaned)[1]
      [] ParsePath(response) = "try2" -> Try2(cleaned)[1]
      [] ParsePath(response) = "try3" -> Try3(cleaned)[1]
      [] ParsePath(response) = "try4" -> Try4(cleaned)[1]
      [] OTHER -> NoDecision

\* _validate_decision raises: the tool of the record is not hashable
ValidateRaises(d) == d.tool = "#unhashable"

_validate_decision(d) ==
    IF d.tool \in all_tools \/ ToolsHasAttr(d.tool)
    THEN d
    ELSE _create_sophisticated_fallback(DecisionText(d))

\* did the parser answer with a decision of the keyword fallback?
UsedFallback(response) ==
    \/ ParsePath(response) = "fallback"
    \/ ValidateRaises(ParsedRecord(response))
    \/ ~(ParsedRecord(response).tool \in all_tools \/ ToolsHasAttr(ParsedRecord(response).tool))

\* the outer except branch answers with the fallback of the response; an
\* exception of that call leaves the parser
_parse_and_validate_llm_response(response) ==
    LET \* the body of the outer try block: the four attempts, then the fallback
        \* (Raised when an exception leaves the body)
        ParseAttempts ==
            IF ParsePath(response) = "fallback"
            THEN _create_sophisticated_fallback(ResponseText(response))
            ELSE IF ValidateRaises(ParsedRecord(response))
            THEN Raised
            ELSE _validate_decision(ParsedRecord(response))
    IN
    IF ParseAttempts = Raised
    THEN _create_sophisticated_fallback(ResponseText(response))
    ELSE ParseAttempts

(***************************************************************************)
(* Executing a step (_execute_sophisticated_step)                          *)
(***************************************************************************)
\* what a tool call gives: kind "dict", "nondict" or "raise"; for a dict its
\* status, the key that carries the element ("selector", "best_match",
\* "element" or "none"), the selector found under it and its message
ToolOutcome(kind, status, selkey, selectors, message) ==
    [kind |-> kind, status |-> status, selkey |-> selkey,
     selectors |-> selectors, message |-> message]
NoOutcome == ToolOutcome("none", "", "none", "", "")

AgentResult(success, step_description, tool_used, phase, element_found, selector_used, error_message) ==
    [success |-> success, step_description |-> step_description,
     tool_used |-> tool_used, phase |-> phase, element_found |-> element_found,
     selector_used |-> selector_used, error_message |-> error_message]
NoResult == AgentResult(FALSE, "", "", "", FALSE, "", "")

_extract_selector_from_result(out) ==
    IF out.kind # "dict" THEN ""
    ELSE IF out.status # "success" THEN ""
    ELSE IF out.selkey \in {"selector", "best_match", "element"} THEN out.selectors
    ELSE ""

_process_tool_result(out, tool_name, step_description, phase) ==
    IF out.kind = "dict"
    THEN AgentResult(out.status = "success", step_description, tool_name, phase,
                     tool_name \in locator_tools
                        /\ _extract_selector_from_result(out) # "",
                     IF tool_name \in locator_tools
                     THEN _extract_selector_from_result(out) ELSE "",
                     out.message)
    ELSE AgentResult(TRUE, step_description, tool_name, phase, FALSE, "", "")

_execute_accessibility_tool(tool_name, out, step_description, phase) ==
    IF tool_name = "check_accessibility"
    THEN IF out.kind = "dict" /\ out.status = "success"
         THEN AgentResult(TRUE, "Accessibility test completed", tool_name, phase,
                          FALSE, "", "")
         ELSE AgentResult(FALSE, step_description, tool_name, phase, FALSE, "",
                          out.message)
    ELSE AgentResult(FALSE, step_description, tool_name, phase, FALSE, "",
                     "Unknown accessibility tool")

\* _execute_unified_action: no locator of PlaywrightTools returns a result
\* from which _extract_selector_from_result reads a selector, so the action
\* is never reached
_execute_unified_action(tool_name, step_description, phase) ==
    AgentResult(FALSE, step_description, tool_name, phase, FALSE, "",
                "Could not locate element")

\* a sweep that a strategy which raises brings to an end
UnifiedAction_Unguarded(f) ==
    LET locator_strategies ==
            <<"playwright_find_by_role", "playwright_smart_text_locator",
              "playwright_label_to_control", "playwright_accessibility_locator">>
        Failed == AgentResult(FALSE, f.step_description, f.tool, f.phase, FALSE, "",
                              "Could not locate element")
        \* the for loop from strategy n on
        RECURSIVE From(_)
        From(n) ==
            IF n > Len(locator_strategies)
            THEN [tried |-> <<>>, actions |-> <<>>, result |-> Failed]
            ELSE LET out == f.locators[n]
                     selector == IF out.kind = "raise" THEN ""
                                 ELSE _extract_selector_from_result(out)
                     acted == [strategy |-> locator_strategies[n], selector |-> selector]
                 IN IF out.kind = "raise"
                    THEN [tried |-> <<locator_strategies[n]>>, actions |-> <<>>,
                          result |-> AgentResult(FALSE, f.step_description, f.tool,
                                                 f.phase, FALSE, "", "Execution error")]
                    ELSE IF selector = ""
                    THEN [From(n + 1) EXCEPT !.tried = <<locator_strategies[n]>> \o @]
                    ELSE IF f.action = "raise"
                    THEN [From(n + 1) EXCEPT !.tried = <<locator_strategies[n]>> \o @,
                                             !.actions = <<acted>> \o @]
                    ELSE [tried |-> <<locator_strategies[n]>>, actions |-> <<acted>>,
                          result |-> AgentResult(f.action = "success", f.step_description,
                                                 f.tool, f.phase, TRUE, selector,
                                                 IF f.action = "success" THEN ""
                                                 ELSE "Element is not attached to the DOM")]
    IN From(1)

\* _execute_unified_action with the results of its calls: tried lists the
\* locators it calls and actions the calls of playwright_click or
\* playwright_fill it makes, both in order, and result is the AgentResult
\*   tool      "unified_click" or "unified_fill"
\*   locators  what the four locators do, in the order of locator_strategies
\*   action    what the action does: "success", "error" or "raise"
UnifiedAction(f) ==
    LET locator_strategies ==
            <<"playwright_find_by_role", "playwright_smart_text_locator",
              "playwright_label_to_control", "playwright_accessibility_locator">>
        Failed == AgentResult(FALSE, f.step_description, f.tool, f.phase, FALSE, "",
                              "Could not locate element")
        \* the for loop from strategy n on
        RECURSIVE From(_)
        From(n) ==
            IF n > Len(locator_strategies)
            THEN [tried |-> <<>>, actions |-> <<>>, result |-> Failed]
            ELSE LET out == f.locators[n]
                     selector == IF out.kind = "raise" THEN ""
                                 ELSE _extract_selector_from_result(out)
                     acted == [strategy |-> locator_strategies[n], selector |-> selector]
                 IN IF FALSE
                    THEN [tried |-> <<locator_strategies[n]>>, actions |-> <<>>,
                          result |-> AgentResult(FALSE, f.step_description, f.tool,
                                                 f.phase, FALSE, "", "Execution error")]
                    ELSE IF selector = ""
                    THEN [From(n + 1) EXCEPT !.tried = <<locator_strategies[n]>> \o @]
                    ELSE IF f.action = "raise"
                    THEN [From(n + 1) EXCEPT !.tried = <<locator_strategies[n]>> \o @,
                                             !.actions = <<acted>> \o @]
                    ELSE [tried |-> <<locator_strategies[n]>>, actions |-> <<acted>>,
                          result |-> AgentResult(f.action = "success", f.step_description,
                                                 f.tool, f.phase, TRUE, selector,
                                                 IF f.action = "success" THEN ""
                                                 ELSE "Element is not attached to the DOM")]
    IN From(1)

\* phase.upper() raises before the try block of _execute_sophisticated_step
StepRaises(d) == d.phase = "#nonstr"

_execute_sophisticated_step(d, out) ==
    LET \* phase = decision.get("phase", "unknown")
        StepPhase == IF d.phase = "" THEN "unknown" ELSE d.phase
    IN
    IF d.tool \in {"unified_fill", "unified_click"}
    THEN _execute_unified_action(d.tool, d.next_step, StepPhase)
    ELSE IF d.tool \in accessibility_tools
    THEN _execute_accessibility_tool(d.tool, out, d.next_step, StepPhase)
    ELSE IF ToolsHasAttr(d.tool)
    THEN IF out.kind = "raise"
         THEN AgentResult(FALSE, d.next_step, d.tool, StepPhase, FALSE, "",
                          "Execution error")
         ELSE _process_tool_result(out, d.tool, d.next_step, StepPhase)
    ELSE AgentResult(FALSE, d.next_step, d.tool, StepPhase, FALSE, "",
                     "Unknown tool")

\* does _execute_sophisticated_step find an implementation for the tool?
Dispatchable(tool_name) ==
    \/ tool_name \in {"unified_fill", "unified_click"}
    \/ tool_name = "check_accessibility"
    \/ tool_name \notin accessibility_tools /\ ToolsHasAttr(tool_name)

(***************************************************************************)
(* Feedback (_generate_sophisticated_feedback)                             *)
(***************************************************************************)
\* a feedback that never gives the max-failures prompt
_generate_sophisticated_feedback_RetryOnly(res, phase, failures) ==
    IF res.success
    THEN <<"SUCCESS", res.phase, res.step_description, res.tool_used,
           "Current phase:", phase, "What's the next step in the workflow?">>
    ELSE <<"FAILURE", res.phase, res.step_description, res.error_message, res.tool_used,
           "Try alternative approach", "Current phase:", phase,
           "Please provide recovery strategy.">>

_generate_sophisticated_feedback(res, phase, failures) ==
    LET RetryHint ==
            <<"Try alternative approach">>
            \o (IF phase = "locate"
                THEN <<"Different locator tool", "Unified tools for automatic element finding">>
                ELSE IF phase = "action"
                THEN <<"Verify selector is correct", "Try unified action tools">>
                ELSE <<>>)
        MaxFailuresPrompt ==
            <<"Max failures reached", "Take screenshot to understand page state",
              "Use different locator strategy", "Use unified tools for automatic handling">>
    IN
    IF res.success
    THEN <<"SUCCESS", res.phase, res.step_description, res.tool_used>>
         \o (IF res.element_found
             THEN <<"ELEMENT LOCATED", res.selector_used, "Next phase: ACTION">>
             ELSE <<"Action completed successfully">>)
         \o <<"Current phase:", phase, "What's the next step in the workflow?">>
    ELSE <<"FAILURE", res.phase, res.step_description, res.error_message, res.tool_used>>
         \o (IF failures >= max_failures THEN MaxFailuresPrompt ELSE RetryHint)
         \o <<"Current phase:", phase, "Please provide recovery strategy.">>

(***************************************************************************)
(* Error recovery (ErrorRecovery of src/Playwright_tools.py)               *)
(***************************************************************************)
\* the context handed to recover together with the facts of the page the
\* strategies read: page_index and selector are keys of the context; frames
\* is len(page.frames), shadow_hosts whether the page has shadow hosts, idle
\* whether wait_for_load_state returns in time, elements whether the visual
\* finder detects elements, alt_visible whether an alternative selector is
\* visible
RecContext(page_index, selector, frames, shadow_hosts, idle, elements, alt_visible, raising) ==
    [page_index |-> page_index, selector |-> selector, frames |-> frames,
     shadow_hosts |-> shadow_hosts, idle |-> idle, elements |-> elements,
     alt_visible |-> alt_visible, raising |-> raising]
NoContext == RecContext(0, "", 1, FALSE, FALSE, FALSE, FALSE, "")

\* the result of a strategy or of recover
RecResult(success, strategy, message) ==
    [success |-> success, strategy |-> strategy, message |-> message]
NoRecResult == RecResult(FALSE, "", "not called")


\* recovery_strategies of recover
recovery_strategies ==
    <<"iframe_context", "shadow_dom", "dynamic_wait", "visual_approach",
      "alternative_selectors">>

\* the marker of a strategy call that raises an Exception
StrategyRaised(name) == RecResult(FALSE, name, "#raised")

\* await strategy(context, error_message): ctx.raising names the strategy
\* whose call raises an Exception past its own handler, if any
RunStrategy(name, ctx) ==
    LET \* _get_page returns a page (None for a negative index; a strategy that
        \* uses None raises inside its own try block and reports a failure)
        HasPage == ctx.page_index >= 0
        try_alternative_selectors ==
            LET \* the alternatives try_alternative_selectors generates for a selector
                Alternatives(selector) ==
                    CASE selector = "#submit" -> <<"[id='submit">>
                      [] selector = ".btn"    -> <<"*[contains(@class, 'btn')]">>
                      [] OTHER                -> <<>>
            IN
            IF ctx.selector = ""
            THEN RecResult(FALSE, "alternative_selectors", "No selector provided")
            ELSE RecResult(HasPage /\ Alternatives(ctx.selector) # <<>> /\ ctx.alt_visible,
                           "alternative_selectors", "")
        try_visual_approach ==
            RecResult(HasPage /\ ctx.elements, "visual_approach", "")
        try_dynamic_wait ==
            RecResult(HasPage /\ ctx.idle, "dynamic_wait", "")
        try_shadow_dom ==
            RecResult(HasPage /\ ctx.shadow_hosts, "shadow_dom", "")
        try_iframe_context ==
            RecResult(HasPage /\ ctx.frames > 1, "iframe_context", "")
    IN
    CASE ctx.raising = name             -> StrategyRaised(name)
      [] name = "iframe_context"        -> try_iframe_context
      [] name = "shadow_dom"            -> try_shadow_dom
      [] name = "dynamic_wait"          -> try_dynamic_wait
      [] name = "visual_approach"       -> try_visual_approach
      [] name = "alternative_selectors" -> try_alternative_selectors

\* a loop that never returns from inside
ReturnsOnSuccess_Never(r) == FALSE

\* does the loop of recover return the result of a strategy that succeeds?
ReturnsOnSuccess(r) == r.success

\* a loop without the except branch
CatchesStrategyError_Never(r) == FALSE

\* except Exception as strategy_error: ... continue
CatchesStrategyError(r) == r.message = "#raised"

RECURSIVE RecoverFrom(_, _)
\* the loop of recover from the i-th strategy on: the strategies it invokes
\* and the value it returns (the marker of a strategy that raised when its
\* exception leaves recover)
RecoverFrom(ctx, i) ==
    IF i > Len(recovery_strategies)
    THEN [invoked |-> <<>>,
          result |-> RecResult(FALSE, "", "All recovery strategies failed")]
    ELSE IF /\ RunStrategy(recovery_strategies[i], ctx) = StrategyRaised(recovery_strategies[i])
            /\ ~CatchesStrategyError(RunStrategy(recovery_strategies[i], ctx))
    THEN [invoked |-> <<recovery_strategies[i]>>,
          result |-> StrategyRaised(recovery_strategies[i])]
    ELSE IF ReturnsOnSuccess(RunStrategy(recovery_strategies[i], ctx))
    THEN [invoked |-> <<recovery_strategies[i]>>,
          result |-> RunStrategy(recovery_strategies[i], ctx)]
    ELSE [invoked |-> <<recovery_strategies[i]>> \o RecoverFrom(ctx, i + 1).invoked,
          result |-> RecoverFrom(ctx, i + 1).result]

recover(ctx) == RecoverFrom(ctx, 1)

(***************************************************************************)
(* The multi-strategy locator (playwright_multi_strategy_locate)           *)
(***************************************************************************)
\* the arguments of a call and the facts of the page it reads:
\*   analyzer      "none" (self.dom_analyzer is None), "ok", or "raise"
\*                 (analyze_form raises: its _get_page is outside its try)
\*   candidates    the visible fields and elements that match the description
\*   finder        self.visual_finder is set
\*   visual_status the status of find_element_by_visual
\*   visual_elements  the number of elements it detected
\*   role          playwright_find_by_role: "success", "error" or "raise"
\*   action        the action argument
LocFacts(analyzer, candidates, finder, visual_status, visual_elements, role, action) ==
    [analyzer |-> analyzer, candidates |-> candidates, finder |-> finder,
     visual_status |-> visual_status, visual_elements |-> visual_elements,
     role |-> role, action |-> action]
NoLocFacts == LocFacts("none", 0, FALSE, "error", 0, "error", "find")

\* the strategies the locator is built from
configured_strategies == <<"dom_analysis", "visual_analysis", "accessibility_location">>

\* the list strategies at the end of the try block
Strategies(f) ==
    LET \* an entry of the list strategies
        Strategy(name, success, found) == [name |-> name, success |-> success, found |-> found]
        \* strategy 3: appended when playwright_find_by_role reports success (an
        \* exception of the call is passed over)
        RoleStrategy ==
            IF f.role = "success"
            THEN <<Strategy("accessibility_location", TRUE, 1)>>
            ELSE <<>>
        \* strategy 2: appended when the visual finder reports the status success
        VisualStrategy ==
            IF f.finder /\ f.visual_status = "success"
            THEN <<Strategy("visual_analysis", TRUE, f.visual_elements)>>
            ELSE <<>>
        \* strategy 1: appended whenever the analyzer is set
        DomStrategy ==
            IF f.analyzer = "ok"
            THEN <<Strategy("dom_analysis", f.candidates > 0, f.candidates)>>
            ELSE <<>>
    IN
                 DomStrategy \o VisualStrategy \o RoleStrategy

\* best_strategy: the first strategy of the list with success, <<>> for None
BestStrategy(strategies) ==
    LET ok == {i \in 1..Len(strategies) : strategies[i].success}
    IN IF ok = {} THEN <<>>
       ELSE <<strategies[CHOOSE i \in ok : \A j \in ok : i <= j]>>

\* the value the locator returns; a key the dict does not carry is a
\* field the record does not have
playwright_multi_strategy_locate(f) ==
    IF f.analyzer = "raise"
    THEN [status |-> "error", message |-> "str(e)"]
    ELSE IF BestStrategy(Strategies(f)) # <<>>
    THEN [status |-> "success",
          element_found |-> TRUE,
          best_strategy |-> BestStrategy(Strategies(f))[1].name,
          all_strategies |-> Strategies(f),
          action_performed |-> IF f.action # "find" THEN f.action ELSE "None"]
    ELSE [status |-> "error",
          message |-> "No element found matching description",
          strategies_tried |-> [i \in 1..Len(Strategies(f)) |-> Strategies(f)[i].name],
          element_found |-> FALSE]
NoLocResult == [status |-> "not called"]

(***************************************************************************)
(* The text locator (playwright_smart_text_locator).  A text is a sequence *)
(* of characters; "A" is the upper case of "a".  A score is kept in        *)
(* sixtieths, which is exact for texts of up to six characters: 60 is 1,   *)
(* 48 is 0.8, 36 is 0.6 and 18 is 0.3.                                     *)
(***************************************************************************)
\* characters per text
MaxText == 3
\* elements per page
MaxElements == 3

\* a similarity that compares the texts as they are written
calculateTextSimilarity_CaseSensitive(str1, str2, fuzzyMatch) ==
    LET includes(s, t) ==
            \E k \in 0..(Len(s) - Len(t)) : SubSeq(s, k + 1, k + Len(t)) = t
        Least(x, y, z) == IF x <= y /\ x <= z THEN x ELSE IF y <= z THEN y ELSE z
        RECURSIVE matrix(_, _)
        matrix(i, j) ==
            IF i = 0 THEN j
            ELSE IF j = 0 THEN i
            ELSE IF str2[i] = str1[j] THEN matrix(i - 1, j - 1)
            ELSE Least(matrix(i - 1, j - 1) + 1, matrix(i, j - 1) + 1,
                       matrix(i - 1, j) + 1)
        maxLength == IF Len(str1) >= Len(str2) THEN Len(str1) ELSE Len(str2)
    IN
    IF ~fuzzyMatch THEN (IF includes(str1, str2) THEN 60 ELSE 0)
    ELSE IF str1 = str2 THEN 60
    ELSE IF includes(str1, str2) \/ includes(str2, str1) THEN 48
    ELSE (60 * (maxLength - matrix(Len(str2), Len(str1)))) \div maxLength

\* calculateTextSimilarity(str1, str2) of the script, fuzzyMatch being the
\* argument of the script it reads; matrix[i][j] is the distance of the
\* first i characters of s2 and the first j characters of s1
calculateTextSimilarity(str1, str2, fuzzyMatch) ==
    LET toLowerCase(s) == [i \in 1..Len(s) |-> IF s[i] = "A" THEN "a" ELSE s[i]]
        includes(s, t) ==
            \E k \in 0..(Len(s) - Len(t)) : SubSeq(s, k + 1, k + Len(t)) = t
        s1 == toLowerCase(str1)
        s2 == toLowerCase(str2)
        Least(x, y, z) == IF x <= y /\ x <= z THEN x ELSE IF y <= z THEN y ELSE z
        RECURSIVE matrix(_, _)
        matrix(i, j) ==
            IF i = 0 THEN j
            ELSE IF j = 0 THEN i
            ELSE IF s2[i] = s1[j] THEN matrix(i - 1, j - 1)
            ELSE Least(matrix(i - 1, j - 1) + 1, matrix(i, j - 1) + 1,
                       matrix(i - 1, j) + 1)
        distance == matrix(Len(s2), Len(s1))
        maxLength == IF Len(s1) >= Len(s2) THEN Len(s1) ELSE Len(s2)
    IN
    IF ~fuzzyMatch THEN (IF includes(s1, s2) THEN 60 ELSE 0)
    ELSE IF s1 = s2 THEN 60
    ELSE IF includes(s1, s2) \/ includes(s2, s1) THEN 48
    ELSE (60 * (maxLength - distance)) \div maxLength

\* the dict playwright_smart_text_locator returns for a call
\*   text           the text argument
\*   element_types  the element_types the script is given
\*   fuzzy_match    the fuzzy_match argument
\*   page           the elements of the page in document order, each with
\*                  its tag, whether its rectangle has a width and a
\*                  height, and its text sources
\* with action "find"
playwright_smart_text_locator(f) ==
    LET elements == f.page
        \* the index of element p in document.querySelectorAll(its tag)
        index(p) ==
            Cardinality({q \in 1..(p - 1) : elements[q].tagName = elements[p].tagName})
        \* textSources.forEach from source k on, best being <<bestScore, bestText>>
        RECURSIVE Best(_, _, _)
        Best(textSources, k, best) ==
            IF k > Len(textSources) THEN best
            ELSE LET textScore ==
                         IF Len(textSources[k]) > 0
                         THEN calculateTextSimilarity(textSources[k], f.text,
                                                      f.fuzzy_match)
                         ELSE 0
                 IN Best(textSources, k + 1,
                         IF textScore > best[1] THEN <<textScore, textSources[k]>>
                         ELSE best)
        \* what the callback of elements.forEach pushes for element p
        Candidate(p) ==
            LET best == Best(elements[p].textSources, 1, <<0, <<>>>>)
            IN IF elements[p].visible /\ best[1] > 18
               THEN <<[element |-> [tagName |-> elements[p].tagName, index |-> index(p)],
                       score |-> best[1], matchedText |-> best[2],
                       confidence |-> IF best[1] > 48 THEN "high"
                                      ELSE IF best[1] > 36 THEN "medium" ELSE "low"]>>
               ELSE <<>>
        \* document.querySelectorAll(tagName).forEach from element p on
        RECURSIVE OfTag(_, _)
        OfTag(tagName, p) ==
            IF p > Len(elements) THEN <<>>
            ELSE (IF elements[p].tagName = tagName THEN Candidate(p) ELSE <<>>)
                 \o OfTag(tagName, p + 1)
        \* elementTypes.forEach from type t on
        RECURSIVE Gather(_)
        Gather(t) ==
            IF t > Len(f.element_types) THEN <<>>
            ELSE OfTag(f.element_types[t], 1) \o Gather(t + 1)
        \* candidates.sort((a, b) => b.score - a.score): a stable sort
        RECURSIVE sort(_)
        sort(cs) ==
            IF cs = <<>> THEN <<>>
            ELSE LET first == CHOOSE i \in 1..Len(cs) :
                                 /\ \A j \in 1..Len(cs) : cs[j].score <= cs[i].score
                                 /\ \A j \in 1..(i - 1) : cs[j].score < cs[i].score
                 IN <<cs[first]>>
                    \o sort(SubSeq(cs, 1, first - 1) \o SubSeq(cs, first + 1, Len(cs)))
        candidates == sort(Gather(1))
    IN
    IF candidates = <<>>
    THEN [status |-> "error", message |-> <<"No elements found matching text">>,
          searched_types |-> f.element_types]
    ELSE [status |-> "success", best_match |-> candidates[1],
          all_candidates |-> SubSeq(candidates, 1,
                                    IF Len(candidates) < 5 THEN Len(candidates) ELSE 5),
          action_performed |-> "None",
          search_parameters |-> [text |-> f.text, element_types |-> f.element_types,
                                 fuzzy_match |-> f.fuzzy_match]]

(***************************************************************************)
(* Actions on elements (playwright_click, playwright_fill)                 *)
(***************************************************************************)
\* the arguments of a call and the facts of the page it reads:
\*   tool        "click" or "fill"
\*   page_index  the page_index argument
\*   selector    the selector argument
\*   element     the element of the selector: "visible"; "absent" (no such
\*               element in the page); "hidden" (it exists and does not
\*               become visible within the timeout of the wait); "broken"
\*               (visible, and the interaction with it raises an error)
\*   capture     the capture_screenshot argument
\*   works       the further approaches that find a visible element: the
\*               other cookie selectors of click, the fallbacks of fill
\*   fills       the fallbacks of fill, among those of works, whose call
\*               writes the text: a locator returns success also when it
\*               has found an element and filled none, or when its fill
\*               raised
ActFacts(tool, page_index, selector, element, capture, works, fills) ==
    [tool |-> tool, page_index |-> page_index, selector |-> selector,
     element |-> element, capture |-> capture, works |-> works, fills |-> fills]
NoActFacts == ActFacts("click", 0, "", "visible", FALSE, {}, {})

\* str(e) of the exception an awaited call raises
TimeoutText == "Timeout exceeded"
InteractionText == "Element is not attached to the DOM"

\* page.wait_for_selector(selector, state="visible") raises TimeoutError
WaitTimesOut(f) == f.element \in {"absent", "hidden"}

\* the result of a successful click, with the screenshot it captured
Clicked(f, selector) ==
    IF f.capture
    THEN [status |-> "success", message |-> <<"Clicked on", selector>>,
          screenshot |-> "click_TIME.png"]
    ELSE [status |-> "success", message |-> <<"Clicked on", selector>>]

playwright_click(f) ==
    LET \* the loop over common_cookie_selectors: is_visible, then click; an
        \* exception passes on to the next selector
        CookieClick ==
            IF f.element = "visible"
            THEN Clicked(f, f.selector)
            ELSE IF "cookie_selectors" \in f.works
            THEN Clicked(f, "#accept-cookies")
            ELSE [status |-> "error",
                  message |-> <<"Could not find any cookie consent button to click">>]
        \* "cookie" in selector.lower() or "accept" in ... or "consent" in ...
        LooksLikeCookie(selector) == selector \in {"#accept-cookies", ".cookie-banner button"}
    IN
    IF f.page_index < 0
    THEN [status |-> "error", message |-> <<"Invalid page index">>]
    ELSE IF LooksLikeCookie(f.selector)
    THEN CookieClick
    ELSE IF WaitTimesOut(f)
    THEN [status |-> "error", message |-> <<TimeoutText>>]
    ELSE IF f.element = "broken"
    THEN [status |-> "error", message |-> <<InteractionText>>]
    ELSE Clicked(f, f.selector)

\* a fill that goes on after an approach that worked
FillStages_All(f) ==
    IF f.page_index < 0 THEN <<>>
    ELSE IF ~WaitTimesOut(f) THEN <<"standard_fill">>
    ELSE <<"standard_fill", "multi_strategy", "vision_locator", "accessibility_locator",
           "js_locate", "common_selectors">>

\* the approaches a call of playwright_fill runs, in the order in which it
\* runs them: the standard fill and, after a timeout of it, the approaches
\* of the except branch up to the first that works
FillStages(f) ==
    LET fill_fallbacks ==
            <<"multi_strategy", "vision_locator", "accessibility_locator", "js_locate",
              "common_selectors">>
        RECURSIVE From(_)
        From(n) == IF n > Len(fill_fallbacks) THEN <<>>
                   ELSE IF fill_fallbacks[n] \in f.works THEN <<fill_fallbacks[n]>>
                   ELSE <<fill_fallbacks[n]>> \o From(n + 1)
    IN
    IF f.page_index < 0 THEN <<>>
    ELSE IF ~WaitTimesOut(f) THEN <<"standard_fill">>
    ELSE <<"standard_fill">> \o From(1)

\* the approaches of a call of playwright_fill that write the text into
\* an element: page.fill of the standard fill or of a common selector, or
\* the fill inside a locator
Filled(f) ==
    LET stages == FillStages(f)
    IN {stages[n] : n \in {k \in 1..Len(stages) :
                              \/ stages[k] = "standard_fill" /\ f.element = "visible"
                              \/ stages[k] \in f.fills}}

\* the dict playwright_fill returns
playwright_fill(f) ==
    IF f.page_index < 0
    THEN [status |-> "error", message |-> <<"Invalid page index">>]
    ELSE IF WaitTimesOut(f)
    THEN \* the except PlaywrightTimeoutError branch
         LET last == FillStages(f)[Len(FillStages(f))] IN
            IF last \in f.works
            THEN [status |-> "success", message |-> <<"Filled input using">>,
                  strategy_used |-> last]
            ELSE [status |-> "error",
                  message |-> <<"Failed to fill text. All approaches failed.">>,
                  selector_tried |-> f.selector]
    ELSE IF f.element = "broken"
    THEN [status |-> "error", message |-> <<InteractionText>>]
    ELSE [status |-> "success", message |-> <<"Filled", f.selector, "with text">>,
          strategy_used |-> "standard_fill"]

\* the call of the action tool
ActionResult(f) == IF f.tool = "click" THEN playwright_click(f) ELSE playwright_fill(f)
NoActResult == [status |-> "not called"]

(***************************************************************************)
(* The browser session (initialize, _ensure_browser_initialized,           *)
(* _get_page, cleanup, close) and the screenshot captures                  *)
(***************************************************************************)
\* the attributes of PlaywrightTools: playwright is set or None; browser
\* and context are the number of the launch that made them, 0 for None;
\* pages is the list self.pages
Session(playwright, browser, context, pages, browser_initialized) ==
    [playwright |-> playwright, browser |-> browser, context |-> context,
     pages |-> pages, browser_initialized |-> browser_initialized]
\* the attributes after __init__
NewSession == Session(FALSE, 0, 0, <<>>, FALSE)

\* a page: its number and the context it was created in
PageOf(id, context) == [id |-> id, context |-> context]

NoWorld ==
    LET \* outside the object: the browsers launched so far, the pages created so
        \* far, the pages that are closed, the pages on which close() was awaited,
        \* the paths written by captures in order, the event-loop clock in ticks,
        \* the number of operations so far, and the pages that have a listener
        \* for their console messages
        World(launches, created, closed, close_called, files, clock, ops, listening) ==
            [launches |-> launches, created |-> created, closed |-> closed,
             close_called |-> close_called, files |-> files, clock |-> clock, ops |-> ops,
             listening |-> listening]
    IN
           World(0, 0, {}, {}, <<>>, 0, 0, {})

\* what a helper gives back: the attributes, the world, whether it raised,
\* and the page it returns (<<>> for None)
Outcome(sess, w, raised, page) == [session |-> sess, world |-> w, raised |-> raised, page |-> page]

\* _ensure_browser_initialized: launches a browser only when
\* browser_initialized is false; launch_ok says whether the launch succeeds
_ensure_browser_initialized(sess, w, launch_ok) ==
    IF sess.browser_initialized
    THEN Outcome(sess, w, FALSE, <<>>)
    ELSE IF ~sess.playwright \/ ~launch_ok
    THEN Outcome([sess EXCEPT !.browser_initialized = FALSE], w, TRUE, <<>>)
    ELSE IF Len(sess.pages) = 0
    THEN Outcome(Session(sess.playwright, w.launches + 1, w.launches + 1,
                         <<PageOf(w.created + 1, w.launches + 1)>>, TRUE),
                 [w EXCEPT !.launches = @ + 1, !.created = @ + 1], FALSE, <<>>)
    ELSE Outcome(Session(sess.playwright, w.launches + 1, w.launches + 1,
                         sess.pages, TRUE),
                 [w EXCEPT !.launches = @ + 1], FALSE, <<>>)

\* _get_page(page_index)
_get_page(sess, w, page_index, launch_ok) ==
    IF page_index < 0
    THEN Outcome(sess, w, FALSE, <<>>)
    ELSE IF _ensure_browser_initialized(sess, w, launch_ok).raised
    THEN _ensure_browser_initialized(sess, w, launch_ok)
    ELSE LET e == _ensure_browser_initialized(sess, w, launch_ok)
             RECURSIVE NewPages(_, _)
             \* while len(self.pages) <= page_index: self.pages.append(new_page)
             NewPages(list, created) ==
                 IF Len(list) > page_index THEN list
                 ELSE NewPages(Append(list, PageOf(created + 1, e.session.context)),
                               created + 1)
             pages == NewPages(e.session.pages, e.world.created)
         IN Outcome([e.session EXCEPT !.pages = pages],
                    [e.world EXCEPT
                        !.created = @ + (Len(pages) - Len(e.session.pages)),
                        \* new_page.on("console", ...) on each page of the loop
                        !.listening = @ \cup
                            {pages[i].id : i \in (Len(e.session.pages) + 1)..Len(pages)}],
                    FALSE, <<pages[page_index + 1]>>)

\* the pages of the list on which cleanup and close await close(): those
\* that are not closed yet
OpenPages(sess, w) ==
    {sess.pages[i].id : i \in 1..Len(sess.pages)} \ w.closed

\* a cleanup that tears the session down
CleanupSession_Teardown(sess) == NewSession

\* the attributes after cleanup(): only the list of pages is emptied
CleanupSession(sess) == [sess EXCEPT !.pages = <<>>]

\* a close() whose steps are not guarded one by one: an error of a step
\* skips the reset
CloseSession_Unguarded(sess, raises) == IF raises # {} THEN sess ELSE NewSession

\* the attributes after close(): raises names the steps (page, context,
\* browser, playwright) whose awaited close raised; each is caught alone
CloseSession(sess, raises) == NewSession

\* the world after the pages of the list were closed
PagesClosed(sess, w) ==
    [w EXCEPT !.closed = @ \cup OpenPages(sess, w),
              !.close_called = @ \cup OpenPages(sess, w)]

\* the path of a capture: playwright_navigate stamps its file with the
\* clock in whole seconds, playwright_click and playwright_hover with the
\* clock itself, playwright_screenshot uses the file name it is given
TicksPerSecond == 2

\* the last operation: its name, its page index, whether it raised, the
\* attributes and the world before it, and the operation before it
Operation(name, page_index, raised, raises, before, world_before, prev) ==
    [name |-> name, page_index |-> page_index, raised |-> raised, raises |-> raises,
     before |-> before, world_before |-> world_before, prev |-> prev]
NoOp == Operation("none", 0, FALSE, {}, NewSession, NoWorld, "none")

(***************************************************************************)
(* The accessibility report (_deduplicate_issues,                          *)
(* _calculate_accessibility_score)                                         *)
(***************************************************************************)
_deduplicate_issues(list) ==
    LET \* key = f"{issue.wcag_criterion}:{issue.selector}:{issue.title}"
        IssueKey(issue) ==
            issue.wcag_criterion \o <<":">> \o issue.selector \o <<":">> \o issue.title
        RECURSIVE DeduplicateFrom(_, _)
        \* the loop of _deduplicate_issues from the i-th issue on, given seen
        DeduplicateFrom(i, seen) ==
            IF i > Len(list) THEN <<>>
            ELSE IF IssueKey(list[i]) \notin seen
            THEN <<list[i]>> \o DeduplicateFrom(i + 1, seen \cup {IssueKey(list[i])})
            ELSE DeduplicateFrom(i + 1, seen)
    IN DeduplicateFrom(1, {})

\* the numbers of violations, warnings and manual checks of a report
Counts(violations, warnings, manual_checks) ==
    [violations |-> violations, warnings |-> warnings, manual_checks |-> manual_checks]

\* a score that is not cut off at 0
AtLeastZero_Unbounded(x) == x

\* max(0, x)
AtLeastZero(x) == IF x > 0 THEN x ELSE 0

\* _calculate_accessibility_score on lists of these lengths (the score is a
\* whole number, which round(score, 1) leaves as it is)
_calculate_accessibility_score(c) ==
    IF c.violations = 0 /\ c.warnings = 0
    THEN 100
    ELSE AtLeastZero(100 - (c.violations * 10 + c.warnings * 5 + c.manual_checks * 2))

\* an engine whose exception is not kept out of all_issues
EngineIssues_Leaky(run, engine) ==
    IF engine \in DOMAIN run.does /\ run.does[engine] # "not installed"
    THEN <<[id |-> engine, type |-> "violation", wcag_criterion |-> <<"1.4.3">>,
            selector |-> <<engine>>, title |-> <<"Low contrast">>]>>
    ELSE <<>>

\* the issues one engine adds to all_issues in the loop of
\* run_comprehensive_test: none for a name that is not in self.engines, none
\* when the engine raises (the except branch), none when the engine is not
\* installed (it returns []), its issues otherwise
EngineIssues(run, engine) ==
    IF engine \in DOMAIN run.does /\ run.does[engine] \in {"violation", "warning"}
    THEN <<[id |-> engine, type |-> run.does[engine], wcag_criterion |-> <<"1.4.3">>,
            selector |-> <<engine>>, title |-> <<"Low contrast">>]>>
    ELSE <<>>

(***************************************************************************)
(* ColorContrastChecker.  A ratio is counted in hundredths: 450 is 4.5.    *)
(***************************************************************************)
\* a check that takes no notice of bold
check_wcag_compliance_SizeOnly(ratio, font_size, bold) ==
    LET is_large_text == font_size >= 18
        aa_threshold == IF is_large_text THEN 300 ELSE 450
        aaa_threshold == IF is_large_text THEN 450 ELSE 700
    IN [AA |-> ratio >= aa_threshold, AAA |-> ratio >= aaa_threshold, ratio |-> ratio,
        threshold_AA |-> aa_threshold, threshold_AAA |-> aaa_threshold]

check_wcag_compliance(ratio, font_size, bold) ==
    LET is_large_text == font_size >= 18 \/ (font_size >= 14 /\ bold)
        aa_threshold == IF is_large_text THEN 300 ELSE 450
        aaa_threshold == IF is_large_text THEN 450 ELSE 700
    IN [AA |-> ratio >= aa_threshold, AAA |-> ratio >= aaa_threshold, ratio |-> ratio,
        threshold_AA |-> aa_threshold, threshold_AAA |-> aaa_threshold]

\* the tool layer before any call
ToolsIdle ==
    /\ loc_facts = NoLocFacts
    /\ loc_result = NoLocResult
    /\ act_facts = NoActFacts
    /\ act_result = NoActResult
    /\ session = NewSession
    /\ world = NoWorld
    /\ op = NoOp
    /\ codegen_sessions = <<>>
    /\ console_logs = <<>>
    /\ tool_result = [call |-> "none"]
    /\ issues = <<>>
    /\ unique_issues = <<>>
    /\ counts = Counts(0, 0, 0)
    /\ score = 0
    /\ engine_run = <<>>
    /\ contrast = <<>>

(***************************************************************************)
(* The orchestration loop (sophisticated_llm_interaction)                  *)
(***************************************************************************)
Message(role, content) == [role |-> role, content |-> content]

\* what an iteration did: the branch it took, whether it left the loop by
\* break, and whether it executed a tool
Iteration(kind, broke, executed) ==
    [kind |-> kind, broke |-> broke, executed |-> executed]
NoIteration == Iteration("none", FALSE, FALSE)

\* a choice of the environment for one iteration: the decision source
\* raises or answers with a response, and the tool answers with an outcome
EnvChoice(llm, response, out) == [llm |-> llm, response |-> response, out |-> out]
NoEnv == EnvChoice("none", NoResponse, NoOutcome)

\* the agent after __init__
Init ==
    /\ user_goal = <<>>
    /\ conversation_history = <<>>
    /\ step_count = 0
    /\ failure_count = 0
    /\ current_phase = ""
    /\ pc = "idle"
    /\ llm_response = NoResponse
    /\ decision = NoDecision
    /\ result = NoResult
    /\ iteration = NoIteration
    /\ completion_check = "none"
    /\ llm_calls = 0
    /\ env = NoEnv
    /\ parse_path = "none"
    /\ rec_context = NoContext
    /\ rec_invoked = <<>>
    /\ rec_result = NoRecResult
    /\ ToolsIdle

\* the call of sophisticated_llm_interaction up to the loop
Start(goal) ==
    /\ pc = "idle"
    /\ user_goal' = goal
    /\ conversation_history' = <<InitialMessage(goal)>>
    /\ step_count' = 0
    /\ failure_count' = 0
    /\ current_phase' = "locate"
    /\ pc' = "loop"
    /\ UNCHANGED <<llm_response, decision, result, iteration, completion_check,
                   llm_calls, env, parse_path>>
    /\ UNCHANGED <<recVars, toolVars>>

\* the head of an iteration: the loop condition, step_count += 1 and the
\* consultation of the decision source
Consult(e) ==
    /\ pc = "loop"
    /\ step_count < max_steps
    /\ step_count' = step_count + 1
    /\ llm_calls' = llm_calls + 1
    /\ env' = e
    /\ llm_response' = e.response
    /\ parse_path' = IF e.llm = "ok" THEN ParsePath(e.response) ELSE "none"
    /\ UNCHANGED <<user_goal, rec_context, rec_invoked, rec_result, toolVars>>

\* a loop that is left by break only
AfterIteration_NoBudget(broke) ==
    pc' = IF broke THEN "done" ELSE "loop"

\* the loop is left by break or because the loop condition fails
AfterIteration(broke) ==
    pc' = IF broke \/ step_count + 1 >= max_steps THEN "done" ELSE "loop"

\* an iteration that ends in the except branch: the decision source raises,
\* the parser raises, or the step raises outside its own try block
IterationRaises(e, d) ==
    /\ Consult(e)
    /\ \/ e.llm = "raise"
       \/ e.llm = "ok" /\ d = Raised
       \/ e.llm = "ok" /\ d.action = "plan" /\ StepRaises(d)
    /\ decision' = d
    /\ result' = NoResult
    /\ iteration' = Iteration("exception", FALSE, FALSE)
    /\ conversation_history' =
          Append(conversation_history,
                 Message("user", <<"Error occurred:",
                                   "Please provide a simple plan for the next step.">>))
    /\ completion_check' = "none"
    /\ AfterIteration(FALSE)
    /\ UNCHANGED <<failure_count, current_phase>>

\* current_phase after a step
NextPhase(d, res, phase) ==
    IF res.success
    THEN IF d.phase = "locate" /\ res.element_found THEN "action"
         ELSE IF d.phase = "action" THEN "verify"
         ELSE IF d.phase = "verify" THEN "locate"
         ELSE phase
    ELSE phase

\* an iteration whose decision is a plan: the step is executed
PlanStep(e, d) ==
    LET \* the transcript after a plan step: the response and the feedback
        PlanHistory(history, response, res, phase, failures) ==
            history \o <<Message("assistant", ResponseText(response)),
                         Message("user", _generate_sophisticated_feedback(res, phase, failures))>>
        \* self.failure_count after a step
        NextFailureCount(res, failures) == IF res.success THEN 0 ELSE failures + 1
        \* does the step call a tool of the tool layer?
        StepCallsTool ==
            \/ d.tool = "check_accessibility"
            \/ d.tool \notin accessibility_tools /\ ToolsHasAttr(d.tool)
            \/ d.tool \in {"unified_fill", "unified_click"}
    IN
    /\ Consult(e)
    /\ e.llm = "ok"
    /\ d.action = "plan"
    /\ ~StepRaises(d)
    /\ \E res \in {_execute_sophisticated_step(d, e.out)} :
       \E history \in {PlanHistory(conversation_history, e.response, res,
                                   NextPhase(d, res, current_phase),
                                   NextFailureCount(res, failure_count))} :
       \E complete \in {d.phase = "verify" /\ res.success
                        /\ _check_goal_completion(user_goal, history)} :
          /\ decision' = d
          /\ result' = res
          /\ current_phase' = NextPhase(d, res, current_phase)
          /\ failure_count' = NextFailureCount(res, failure_count)
          /\ conversation_history' = history
          /\ completion_check' =
                IF ~(d.phase = "verify" /\ res.success) THEN "none"
                ELSE IF complete THEN "yes" ELSE "no"
          /\ iteration' = Iteration("plan", complete, StepCallsTool)
          /\ AfterIteration(complete)

\* an iteration whose decision is the completion signal
CompleteSignal(e, d) ==
    /\ Consult(e)
    /\ e.llm = "ok"
    /\ d.action = "complete"
    /\ decision' = d
    /\ result' = NoResult
    /\ iteration' = Iteration("complete", TRUE, FALSE)
    /\ completion_check' = "none"
    /\ AfterIteration(TRUE)
    /\ UNCHANGED <<failure_count, current_phase, conversation_history>>

\* an unknown action that leaves the loop
UnknownAction_Breaks(e, d) ==
    /\ Consult(e)
    /\ e.llm = "ok"
    /\ d # Raised
    /\ d.action \notin {"plan", "complete"}
    /\ decision' = d
    /\ result' = NoResult
    /\ iteration' = Iteration("unknown", TRUE, FALSE)
    /\ conversation_history' =
          Append(conversation_history,
                 Message("user", <<"Please provide a clear plan">>))
    /\ completion_check' = "none"
    /\ AfterIteration(TRUE)
    /\ UNCHANGED <<failure_count, current_phase>>

\* an iteration whose decision has another action
UnknownAction(e, d) ==
    /\ Consult(e)
    /\ e.llm = "ok"
    /\ d # Raised
    /\ d.action \notin {"plan", "complete"}
    /\ decision' = d
    /\ result' = NoResult
    /\ iteration' = Iteration("unknown", FALSE, FALSE)
    /\ conversation_history' =
          Append(conversation_history,
                 Message("user", <<"Please provide a clear plan">>))
    /\ completion_check' = "none"
    /\ AfterIteration(FALSE)
    /\ UNCHANGED <<failure_count, current_phase>>

\* one iteration of the loop, given what the environment does in it
LoopIteration(e, d) ==
    \/ IterationRaises(e, d)
    \/ PlanStep(e, d)
    \/ CompleteSignal(e, d)
    \/ UnknownAction(e, d)

\* the environment chooses freely in the first FreeSteps iterations and
\* repeats its last choice afterwards
Next ==
    LET \* the decision of an iteration (none when the decision source raises)
        Decide(l) ==
            IF l.llm = "ok" THEN _parse_and_validate_llm_response(l.response) ELSE NoDecision
        \* the goals the loop is explored with
        LoopGoals ==
            {<<"take", "a", "screenshot">>,
             <<"search for", "AI tools">>}
        \* what the tool layer may answer to the step of a decision (nothing when
        \* no step is executed)
        Outcomes(l, d) ==
            LET \* the results the tools of PlaywrightTools and check_accessibility return
                ToolOutcomes(tool_name) ==
                    CASE tool_name = "playwright_find_by_role" ->
                            {ToolOutcome("dict", "success", "none", "", "Found elements"),
                             ToolOutcome("dict", "error", "none", "", "No elements found")}
                      [] tool_name = "playwright_smart_text_locator" ->
                            {ToolOutcome("dict", "success", "best_match", "", "Found text matches"),
                             ToolOutcome("dict", "error", "none", "", "No elements found")}
                      [] tool_name = "playwright_nth_element" ->
                            {ToolOutcome("dict", "success", "element", "", "Found element at index"),
                             ToolOutcome("dict", "error", "none", "", "No elements found")}
                      [] tool_name = "playwright_click" ->
                            {ToolOutcome("dict", "success", "none", "", "Clicked on"),
                             ToolOutcome("raise", "", "none", "", "")}
                      [] tool_name \in {"playwright_navigate", "playwright_screenshot",
                                        "playwright_get_visible_text"} ->
                            {ToolOutcome("dict", "success", "none", "", ""),
                             ToolOutcome("dict", "error", "none", "", "Invalid page index")}
                      [] tool_name = "check_accessibility" ->
                            {ToolOutcome("dict", "success", "none", "", ""),
                             ToolOutcome("dict", "error", "none", "", "Accessibility test failed")}
                      [] OTHER -> {NoOutcome}
            IN
            IF l.llm = "ok" /\ d.action = "plan" /\ ~StepRaises(d)
            THEN ToolOutcomes(d.tool) ELSE {NoOutcome}
        \* what the decision source does in an iteration: it raises, or it
        \* answers with one of the responses
        LlmChoices ==
            LET \* a response that is one JSON object
                JsonResponse(d) == Response("none", <<<<ObjChunk(TRUE, TRUE, FALSE, d)>>>>)
                \* the responses of the decision source the loop is explored with
                LoopResponses ==
                    LET \* a response that is prose
                        ProseResponse(tok) == Response("none", <<<<TextChunk(tok)>>>>)
                    IN
                    {JsonResponse(Decision("plan", "locate", "playwright_find_by_role", "find the button")),
                     JsonResponse(Decision("plan", "action", "playwright_click", "click the button")),
                     JsonResponse(Decision("plan", "verify", "playwright_get_visible_text", "read the page")),
                     JsonResponse(Decision("plan", "#nonstr", "playwright_click", "")),
                     JsonResponse(Decision("complete", "", "", "")),
                     JsonResponse(Decision("complete", "", "playwright_click", "")),
                     JsonResponse(Decision("think", "", "playwright_click", "")),
                     ProseResponse("Task completed"),
                     Response("none", <<<<TextChunk("click"), TextChunk("9(x5000) times")>>>>)}
            IN
            {[llm |-> "raise", response |-> NoResponse]}
            \cup {[llm |-> "ok", response |-> r] : r \in LoopResponses}
    IN
    \/ \E g \in LoopGoals : Start(g)
    \/ /\ step_count < FreeSteps
       /\ \E l \in LlmChoices : \E d \in {Decide(l)} : \E o \in Outcomes(l, d) :
             LoopIteration(EnvChoice(l.llm, l.response, o), d)
    \/ /\ step_count >= FreeSteps
       /\ \E d \in {Decide(env)} : LoopIteration(env, d)

Spec == Init /\ [][Next]_vars

\* the loop body runs to its end once entered: every await of an iteration
\* returns or raises
LiveSpec == Spec /\ WF_vars(Next)

(***************************************************************************)
(* The completion check on its own: a goal, the first message of its       *)
(* session and messages appended to it                                     *)
(***************************************************************************)
\* the goal of test_goal_parsing
TestGoal ==
    <<"Navigate", "to", "url.com", "and", "add", "3", "elements", "by",
      "clicking", "Add Element", "button", "3", "times", ".", "Then", "remove",
      "1", "element", "and", "take", "a", "screenshot", "showing", "Delete",
      "buttons", ".", "Also", "check", "for", "accessiblity">>

\* the messages of a session that is under way: two steps that succeeded
\* in the phases locate and action (no completion check is made after them)
\* and the response that opens the third step
SessionUnderWay ==
    <<Message("assistant", <<"find the button">>),
      Message("user", _generate_sophisticated_feedback(
         AgentResult(TRUE, "find the button", "playwright_find_by_role", "locate",
                     TRUE, "#go", ""), "action", 0)),
      Message("assistant", <<"press the button">>),
      Message("user", _generate_sophisticated_feedback(
         AgentResult(TRUE, "press the button", "playwright_press_key", "action",
                     FALSE, "", ""), "verify", 0)),
      Message("assistant", <<"read the page">>)>>

InitGoal ==
    LET Goals ==
            LET \* the example goal of the specification
                SpecExampleGoal ==
                    <<"Navigate", "to", "X", "and", "click", "Button", "3", "times",
                      "then", "take", "a", "screenshot">>
            IN
            {SpecExampleGoal, TestGoal,
             <<"take", "a", "screenshot">>,
             <<"search for", "AI tools">>,
             <<"visit", "X", "and", "remove", "the", "item">>,
             <<"go to", "X", "and", "check", "accessibility">>,
             <<"run", "a", "wcag", "check">>,
             <<"click", "Save", ".", "repeat", "3", "times">>,
             <<"click", "2", "buttons", "3", "times">>,
             <<"click", "A", "2", "times", "and", "click", "B", "3", "times">>,
             <<"click", "Save", "1", "time">>}
    IN
    /\ user_goal \in Goals
    /\ conversation_history \in {<<InitialMessage(user_goal)>>,
                                 <<InitialMessage(user_goal)>> \o SessionUnderWay}
    /\ step_count = 0
    /\ failure_count = 0
    /\ current_phase = "locate"
    /\ pc = "check"
    /\ llm_response = NoResponse
    /\ decision = NoDecision
    /\ result = NoResult
    /\ iteration = NoIteration
    /\ completion_check = "none"
    /\ llm_calls = 0
    /\ env = NoEnv
    /\ parse_path = "none"
    /\ rec_context = NoContext
    /\ rec_invoked = <<>>
    /\ rec_result = NoRecResult
    /\ ToolsIdle

\* the session appends a message (at most MaxConv of them)
AppendMessage(m) ==
    /\ pc = "check"
    /\ \/ Len(conversation_history) <= MaxConv
       \/ /\ Len(conversation_history) > Len(SessionUnderWay)
          /\ Len(conversation_history) <= Len(SessionUnderWay) + MaxConv
    /\ conversation_history' = Append(conversation_history, m)
    /\ completion_check' = "none"
    /\ UNCHANGED <<user_goal, loopVars, recVars, toolVars>>

\* _check_goal_completion(user_goal, self.conversation_history)
CheckGoal ==
    /\ pc = "check"
    /\ completion_check = "none"
    /\ completion_check' =
          IF _check_goal_completion(user_goal, conversation_history)
          THEN "yes" ELSE "no"
    /\ UNCHANGED <<user_goal, conversation_history, loopVars, recVars, toolVars>>

NextGoal ==
    LET \* messages a session appends: responses of the decision source and the
        \* feedback for steps that succeeded or failed
        GoalMessages ==
            {Message("assistant", <<"Successfully navigated">>),
             Message("assistant", <<"successfully navigated", "clicked", "removed">>),
             Message("user", _generate_sophisticated_feedback(
                AgentResult(TRUE, "Take screenshot", "playwright_screenshot", "verify",
                            FALSE, "", ""), "locate", 0)),
             Message("user", _generate_sophisticated_feedback(
                AgentResult(TRUE, "click the button", "playwright_click", "action",
                            FALSE, "", ""), "verify", 0)),
             Message("user", _generate_sophisticated_feedback(
                AgentResult(TRUE, "Accessibility test completed", "check_accessibility",
                            "action", FALSE, "", ""), "verify", 0)),
             Message("user", _generate_sophisticated_feedback(
                AgentResult(FALSE, "find the button", "playwright_find_by_role", "locate",
                            FALSE, "", "No elements found"), "locate", 1)),
             Message("user", _generate_sophisticated_feedback(
                AgentResult(FALSE, "find the button", "playwright_find_by_role", "locate",
                            FALSE, "", "No elements found"), "locate", 3))}
    IN
    \/ \E m \in GoalMessages : AppendMessage(m)
    \/ CheckGoal

GoalSpec == InitGoal /\ [][NextGoal]_vars

(***************************************************************************)
(* The parser on its own: a response of the decision source is parsed      *)
(***************************************************************************)
\* chunks per response
MaxChunks == 2

InitParse ==
    LET ParseResponses ==
            LET RECURSIVE Layouts(_)
                \* the ways to lay n chunks out in lines
                Layouts(n) ==
                    LET \* the chunks the responses are built from: prose for every branch of the
                        \* fallback, a count of 5000 digits, and JSON fragments that load or not,
                        \* with and without an action, with a known, an unknown and an unhashable
                        \* tool
                        ParseChunks ==
                            {TextChunk("Task completed"), TextChunk("hello"), TextChunk("audit"),
                             TextChunk("visit"), TextChunk("click"), TextChunk("times"),
                             TextChunk("delete"), TextChunk("capture"), TextChunk("locate"),
                             TextChunk("9(x5000) times"),
                             ObjChunk(TRUE, TRUE, FALSE,
                                      Decision("plan", "locate", "playwright_find_by_role", "find the button")),
                             ObjChunk(TRUE, TRUE, TRUE,
                                      Decision("plan", "action", "playwright_click", "click the button")),
                             ObjChunk(FALSE, FALSE, FALSE, NoDecision),
                             ObjChunk(TRUE, FALSE, FALSE, NoDecision),
                             ObjChunk(TRUE, TRUE, FALSE, Decision("plan", "action", "no_such_tool", "")),
                             ObjChunk(TRUE, TRUE, FALSE, Decision("plan", "action", "#unhashable", "")),
                             ObjChunk(TRUE, TRUE, FALSE, Decision("complete", "", "", ""))}
                    IN
                    IF n <= 1
                    THEN {<<<<c>>>> : c \in ParseChunks}
                    ELSE {l \o <<<<c>>>> : l \in Layouts(n - 1), c \in ParseChunks}
                         \cup {[l EXCEPT ![Len(l)] = Append(@, c)] : l \in Layouts(n - 1), c \in ParseChunks}
            IN
            {Response(f, l) : f \in {"none", "both_json", "open"},
                              l \in UNION {Layouts(n) : n \in 1..MaxChunks}}
    IN
    /\ user_goal = <<>>
    /\ conversation_history = <<>>
    /\ step_count = 0
    /\ failure_count = 0
    /\ current_phase = "locate"
    /\ pc = "parse"
    /\ llm_response \in ParseResponses
    /\ decision = NoDecision
    /\ result = NoResult
    /\ iteration = NoIteration
    /\ completion_check = "none"
    /\ llm_calls = 0
    /\ env = NoEnv
    /\ parse_path = "none"
    /\ rec_context = NoContext
    /\ rec_invoked = <<>>
    /\ rec_result = NoRecResult
    /\ ToolsIdle

\* decision = self._parse_and_validate_llm_response(llm_response)
ParseResponse ==
    /\ pc = "parse"
    /\ decision' = _parse_and_validate_llm_response(llm_response)
    /\ parse_path' = ParsePath(llm_response)
    /\ pc' = "parsed"
    /\ UNCHANGED <<user_goal, conversation_history, step_count, failure_count,
                   current_phase, llm_response, result, iteration,
                   completion_check, llm_calls, env, recVars, toolVars>>

NextParse == ParseResponse

ParseSpec == InitParse /\ [][NextParse]_vars

(***************************************************************************)
(* Recovery on its own: recover is called on a context                     *)
(***************************************************************************)
RecContexts ==
    {RecContext(p, s, f, h, i, e, a, r) :
        p \in {-1, 0}, s \in {"", "button", "#submit"}, f \in {1, 2},
        h \in BOOLEAN, i \in BOOLEAN, e \in BOOLEAN, a \in BOOLEAN,
        r \in {""} \cup SeqRange(recovery_strategies)}

InitRecover ==
    /\ user_goal = <<>>
    /\ conversation_history = <<>>
    /\ step_count = 0
    /\ failure_count = 0
    /\ current_phase = "locate"
    /\ pc = "recover"
    /\ llm_response = NoResponse
    /\ decision = NoDecision
    /\ result = NoResult
    /\ iteration = NoIteration
    /\ completion_check = "none"
    /\ llm_calls = 0
    /\ env = NoEnv
    /\ parse_path = "none"
    /\ rec_context \in RecContexts
    /\ rec_invoked = <<>>
    /\ rec_result = NoRecResult
    /\ ToolsIdle

\* await self.recover(error, context)
Recover ==
    /\ pc = "recover"
    /\ rec_invoked' = recover(rec_context).invoked
    /\ rec_result' = recover(rec_context).result
    /\ pc' = "recovered"
    /\ UNCHANGED <<user_goal, conversation_history, step_count, failure_count,
                   current_phase, llm_response, decision, result, iteration,
                   completion_check, llm_calls, env, parse_path, rec_context,
                   toolVars>>

NextRecover == Recover

RecoverSpec == InitRecover /\ [][NextRecover]_vars

(***************************************************************************)
(* The locator and the recovery ladder on their own: one call of           *)
(* playwright_multi_strategy_locate or of recover                          *)
(***************************************************************************)
\* the agent before a session
AgentIdle ==
    /\ user_goal = <<>>
    /\ conversation_history = <<>>
    /\ step_count = 0
    /\ failure_count = 0
    /\ current_phase = "locate"
    /\ llm_response = NoResponse
    /\ decision = NoDecision
    /\ result = NoResult
    /\ iteration = NoIteration
    /\ completion_check = "none"
    /\ llm_calls = 0
    /\ env = NoEnv
    /\ parse_path = "none"

InitLocate ==
    LET \* the calls of the locator: the analyzer and the visual finder are set
        \* together by _initialize_advanced_components
        LocFactsSet ==
            {LocFacts(a, c, a # "none", vs, ve, r, act) :
                a \in {"none", "ok", "raise"}, c \in 0..2,
                vs \in {"success", "error"}, ve \in {0, 2},
                r \in {"success", "error", "raise"}, act \in {"find", "click"}}
        \* the calls of the text locator: element_types is None, so the
        \* script is given the default list; a page of one element with any
        \* text, or of several elements whose texts are "ab" or, after a
        \* text "b", "aab"
        Texts(alphabet) == UNION {[1..n -> alphabet] : n \in 0..MaxText}
        Element(tagName, visible, textSources) ==
            [tagName |-> tagName, visible |-> visible, textSources |-> textSources]
        TextCall(text, fuzzy_match, page) ==
            [text |-> text, fuzzy_match |-> fuzzy_match, page |-> page,
             element_types |->
                 <<"button", "a", "input", "textarea", "select", "div", "span">>]
        SmallElements ==
            {Element(tagName, visible, textSources) :
                tagName \in {"button", "span"}, visible \in BOOLEAN,
                textSources \in {<<<<"a", "b">>>>, <<<<"b">>, <<"a", "a", "b">>>>}}
        TextCalls ==
            {TextCall(text, fuzzy_match, <<Element("button", TRUE, <<source>>)>>) :
                text \in Texts({"a", "b", "A"}), fuzzy_match \in BOOLEAN,
                source \in Texts({"a", "b"})}
            \cup {TextCall(<<"a", "b">>, fuzzy_match, page) :
                     fuzzy_match \in BOOLEAN,
                     page \in UNION {[1..n -> SmallElements] : n \in 2..MaxElements}}
    IN
    /\ AgentIdle
    /\ pc \in {"locate", "recover", "locate_text"}
    /\ rec_context \in (IF pc = "recover" THEN RecContexts ELSE {NoContext})
    /\ rec_invoked = <<>>
    /\ rec_result = NoRecResult
    /\ loc_facts \in (IF pc = "locate" THEN LocFactsSet
                      ELSE IF pc = "locate_text" THEN TextCalls ELSE {NoLocFacts})
    /\ loc_result = NoLocResult
    /\ act_facts = NoActFacts
    /\ act_result = NoActResult
    /\ session = NewSession
    /\ world = NoWorld
    /\ op = NoOp
    /\ codegen_sessions = <<>>
    /\ console_logs = <<>>
    /\ tool_result = [call |-> "none"]
    /\ issues = <<>>
    /\ unique_issues = <<>>
    /\ counts = Counts(0, 0, 0)
    /\ score = 0
    /\ engine_run = <<>>
    /\ contrast = <<>>

\* await self.playwright_multi_strategy_locate(description, action, ...)
Locate ==
    /\ pc = "locate"
    /\ loc_result' = playwright_multi_strategy_locate(loc_facts)
    /\ pc' = "located"
    /\ UNCHANGED <<user_goal, conversation_history, step_count, failure_count,
                   current_phase, llm_response, decision, result, iteration,
                   completion_check, llm_calls, env, parse_path, recVars, loc_facts,
                   actVars, sessVars, auditVars>>

\* await self.playwright_smart_text_locator(text)
LocateText ==
    /\ pc = "locate_text"
    /\ loc_result' = playwright_smart_text_locator(loc_facts)
    /\ pc' = "text_located"
    /\ UNCHANGED <<user_goal, conversation_history, step_count, failure_count,
                   current_phase, llm_response, decision, result, iteration,
                   completion_check, llm_calls, env, parse_path, recVars, loc_facts,
                   actVars, sessVars, auditVars>>

NextLocate ==
    \/ Locate
    \/ Recover
    \/ LocateText

LocateSpec == InitLocate /\ [][NextLocate]_vars

(***************************************************************************)
(* The actions on their own: one call of playwright_click or of            *)
(* playwright_fill                                                         *)
(***************************************************************************)
\* largest max_attempts of a call of playwright_screenshot
MaxAttempts == 2

\* playwright_screenshot(filename, selector, page_index, max_attempts):
\* f.outcomes[k] is what happens in the k-th pass of the loop; the value is
\* the status of the record returned ("none": no record, the function falls
\* off its end), the passes made and the captures of the image tried, the
\* fallback captures included
playwright_screenshot(f) ==
    LET Return(status, attempt_count, captures) ==
            [status |-> status, attempts |-> attempt_count, captures |-> captures]
        RECURSIVE Loop(_, _)
        Loop(attempt_count, captures) ==
            \* while attempt_count < max_attempts:
            IF ~(attempt_count < f.max_attempts)
            THEN Return("none", attempt_count, captures)
            ELSE LET attempt == attempt_count + 1
                     last == attempt = f.max_attempts
                     o == f.outcomes[attempt]
                 IN IF o = "ok"
                    THEN Return("success", attempt, captures + 1)
                    ELSE IF o \in {"init_fails", "page_error", "element_missing"}
                    THEN IF last THEN Return("error", attempt, captures)
                         ELSE Loop(attempt, captures)
                    ELSE IF o = "capture_fails" /\ f.selector # ""
                    THEN \* await element.screenshot(path=full_path) raised
                         IF last THEN Return("error", attempt, captures + 1)
                         ELSE Loop(attempt, captures + 1)
                    ELSE IF o = "capture_fails"
                    THEN \* await page.screenshot(**screenshot_options) raised; on
                         \* the last pass page.screenshot(path=minimal_path) follows
                         IF last
                         THEN Return(IF f.minimal_ok THEN "success" ELSE "error",
                                     attempt, captures + 2)
                         ELSE Loop(attempt, captures + 1)
                    ELSE \* an exception outside the inner try blocks; on the last
                         \* pass page.screenshot(path=emergency_path) follows
                         IF last
                         THEN Return(IF f.emergency_ok THEN "partial_success" ELSE "error",
                                     attempt, captures + 1)
                         ELSE Loop(attempt, captures)
    IN Loop(0, 0)

InitAct ==
    LET ActFactsSet ==
            UNION {{ActFacts(t, p, s, e, c, w, fl) :
                       t \in {"click", "fill"}, p \in {-1, 0},
                       s \in {"#submit", "#accept-cookies"},
                       e \in {"visible", "absent", "hidden", "broken"}, c \in BOOLEAN,
                       fl \in {w \cap {"common_selectors"}, w \ {"cookie_selectors"}}} :
                   w \in {{}, {"cookie_selectors"}, {"multi_strategy"}, {"js_locate"},
                          {"vision_locator", "common_selectors"}}}
        \* the calls of a unified action: a locator raises (from _get_page,
        \* which it awaits before its try block), or returns an error, or
        \* returns its success dict
        LocatorOutcomes(n) ==
            {ToolOutcome("raise", "", "none", "", ""),
             ToolOutcome("dict", "error", "none", "", "No elements found"),
             ToolOutcome("dict", "success",
                         IF n = 2 THEN "best_match" ELSE IF n = 4 THEN "element"
                         ELSE "none", "", "Found")}
        UnifiedFactsSet ==
            {[tool |-> t, locators |-> <<l1, l2, l3, l4>>, action |-> a,
              step_description |-> "Click the button", phase |-> "action"] :
                t \in {"unified_click", "unified_fill"},
                l1 \in LocatorOutcomes(1), l2 \in LocatorOutcomes(2),
                l3 \in LocatorOutcomes(3), l4 \in LocatorOutcomes(4),
                a \in {"success", "error", "raise"}}
        \* the calls of playwright_screenshot: what each pass of the loop meets
        PassOutcomes(selector) ==
            {"ok", "init_fails", "page_error", "capture_fails", "unexpected"}
                \cup (IF selector # "" THEN {"element_missing"} ELSE {})
        ScreenshotFactsSet ==
            UNION {{[tool |-> "screenshot", selector |-> s, max_attempts |-> m,
                     outcomes |-> os, minimal_ok |-> mo, emergency_ok |-> eo] :
                       m \in 0..MaxAttempts,
                       os \in [1..MaxAttempts -> PassOutcomes(s)],
                       mo \in BOOLEAN, eo \in BOOLEAN} :
                   s \in {"", "#submit"}}
    IN
    /\ AgentIdle
    /\ pc \in {"act", "unified", "screenshot"}
    /\ rec_context = NoContext
    /\ rec_invoked = <<>>
    /\ rec_result = NoRecResult
    /\ loc_facts = NoLocFacts
    /\ loc_result = NoLocResult
    /\ act_facts \in (IF pc = "act" THEN ActFactsSet
                      ELSE IF pc = "unified" THEN UnifiedFactsSet
                      ELSE ScreenshotFactsSet)
    /\ act_result = NoActResult
    /\ session = NewSession
    /\ world = NoWorld
    /\ op = NoOp
    /\ codegen_sessions = <<>>
    /\ console_logs = <<>>
    /\ tool_result = [call |-> "none"]
    /\ issues = <<>>
    /\ unique_issues = <<>>
    /\ counts = Counts(0, 0, 0)
    /\ score = 0
    /\ engine_run = <<>>
    /\ contrast = <<>>

\* await self.tools.playwright_click(...) or playwright_fill(...): neither
\* calls the recovery ladder
Act ==
    /\ pc = "act"
    /\ act_result' = ActionResult(act_facts)
    /\ pc' = "acted"
    /\ UNCHANGED <<user_goal, conversation_history, step_count, failure_count,
                   current_phase, llm_response, decision, result, iteration,
                   completion_check, llm_calls, env, parse_path, recVars, locVars,
                   act_facts, sessVars, auditVars>>

\* await self._execute_unified_action("click" or "fill", ...)
ExecuteUnified ==
    /\ pc = "unified"
    /\ act_result' = UnifiedAction(act_facts)
    /\ pc' = "unified_done"
    /\ UNCHANGED <<user_goal, conversation_history, step_count, failure_count,
                   current_phase, llm_response, decision, result, iteration,
                   completion_check, llm_calls, env, parse_path, recVars, locVars,
                   act_facts, sessVars, auditVars>>

\* await self.tools.playwright_screenshot(...)
Screenshot ==
    /\ pc = "screenshot"
    /\ act_result' = playwright_screenshot(act_facts)
    /\ pc' = "screenshot_done"
    /\ UNCHANGED <<user_goal, conversation_history, step_count, failure_count,
                   current_phase, llm_response, decision, result, iteration,
                   completion_check, llm_calls, env, parse_path, recVars, locVars,
                   act_facts, sessVars, auditVars>>

NextAct ==
    \/ Act
    \/ ExecuteUnified
    \/ Screenshot

ActSpec == InitAct /\ [][NextAct]_vars

(***************************************************************************)
(* The browser session on its own: operations on one PlaywrightTools       *)
(***************************************************************************)
\* operations per session
MaxOps == 4
\* largest count asked of playwright_console_logs
MaxLogs == 2
\* ids of code generation sessions a caller asks to end
MaxSessions == 2

InitSession ==
    /\ AgentIdle
    /\ pc = "session"
    /\ rec_context = NoContext
    /\ rec_invoked = <<>>
    /\ rec_result = NoRecResult
    /\ loc_facts = NoLocFacts
    /\ loc_result = NoLocResult
    /\ act_facts = NoActFacts
    /\ act_result = NoActResult
    /\ session = NewSession
    /\ world = NoWorld
    /\ op = NoOp
    /\ codegen_sessions = <<>>
    /\ console_logs = <<>>
    /\ tool_result = [call |-> "none"]
    /\ issues = <<>>
    /\ unique_issues = <<>>
    /\ counts = Counts(0, 0, 0)
    /\ score = 0
    /\ engine_run = <<>>
    /\ contrast = <<>>

\* what every operation on the session does: it is counted, time passes
\* while it runs, and it is recorded as the last operation
Operate(name, page_index, raised, raises, sess, w, elapsed) ==
    /\ pc = "session"
    /\ world.ops < MaxOps
    /\ session' = sess
    /\ world' = [w EXCEPT !.ops = @ + 1, !.clock = @ + elapsed]
    /\ op' = Operation(name, page_index, raised, raises, session, world, op.name)
    /\ UNCHANGED <<user_goal, conversation_history, completion_check, loopVars,
                   recVars, locVars, actVars, auditVars,
                   codegen_sessions, console_logs, tool_result>>

\* initialize(): starts Playwright and tries to launch the browser; a
\* failure of the launch is logged
Initialize(launch_ok) ==
    /\ ~session.playwright
    /\ \E e \in {_ensure_browser_initialized([session EXCEPT !.playwright = TRUE],
                                              world, launch_ok)} :
          Operate("initialize", 0, FALSE, {}, e.session, e.world, 1)

\* a page operation without a capture (for example
\* playwright_get_visible_text): page = await self._get_page(page_index)
PageOperation(page_index, launch_ok) ==
    \E e \in {_get_page(session, world, page_index, launch_ok)} :
        Operate("page_operation", page_index, e.raised, {}, e.session, e.world, 1)

\* a page of the list is closed from outside (the site or the user closes
\* its window)
PageCloses ==
    /\ OpenPages(session, world) # {}
    /\ \E id \in OpenPages(session, world) :
          Operate("page_closes", 0, FALSE, {}, session,
                  [world EXCEPT !.closed = @ \cup {id}], 1)

\* cleanup(); raises: close() of a page raised
Cleanup(raises) ==
    Operate("cleanup", 0, FALSE, raises, CleanupSession(session),
            PagesClosed(session, world), 1)

\* SophisticatedAgentClient.close(): if self.tools: await self.tools.cleanup()
\* (self.tools is set before the session is started); raises: close() of a
\* page raised
AgentClose(raises) ==
    /\ session.playwright
    /\ Operate("agent_close", 0, FALSE, raises, CleanupSession(session),
               PagesClosed(session, world), 1)

\* close(); raises: the steps whose awaited close raised
Close(raises) ==
    Operate("close", 0, FALSE, raises, CloseSession(session, raises),
            PagesClosed(session, world), 1)

\* a tool call that captures a screenshot of page 0: playwright_navigate,
\* playwright_click or playwright_hover with capture_screenshot, or
\* playwright_screenshot with a file name; elapsed is the time the call
\* takes up to the capture
Capture(tool, filename, elapsed) ==
    LET CapturePath(clock) ==
            CASE tool = "navigate"   -> <<"navigation_", clock \div TicksPerSecond, ".png">>
              [] tool = "click"      -> <<"click_", clock, ".png">>
              [] tool = "hover"      -> <<"hover_", clock, ".png">>
              [] OTHER               -> <<filename, 0, ".png">>
    IN
    /\ session.browser_initialized
    /\ \E e \in {_get_page(session, world, 0, TRUE)} :
          Operate(tool, 0, FALSE, {}, e.session,
                  [e.world EXCEPT !.files =
                      Append(@, CapturePath(world.clock + elapsed))],
                  elapsed)

\* a call of a tool that works on the session, its code generation
\* sessions and its console log: what it leaves behind and what it returns
ToolCall(name, page_index, raises, sess, w, sessions, logs, res) ==
    /\ pc = "session"
    /\ world.ops < MaxOps
    /\ session' = sess
    /\ world' = [w EXCEPT !.ops = @ + 1, !.clock = @ + 1]
    /\ op' = Operation(name, page_index, FALSE, raises, session, world, op.name)
    /\ codegen_sessions' = sessions
    /\ console_logs' = logs
    /\ tool_result' = res
    /\ UNCHANGED <<user_goal, conversation_history, completion_check, loopVars,
                   recVars, locVars, actVars, auditVars>>

\* playwright_close(page_index) on the session sess; raises says whether
\* the close of the page raises
playwright_close_Last(sess, w, page_index, raises) ==
    IF page_index < 0 \/ page_index >= Len(sess.pages)
    THEN [session |-> sess, world |-> w, status |-> "error", remaining_pages |-> 0]
    ELSE IF raises
    THEN [session |-> sess,
          world |-> [w EXCEPT !.close_called = @ \cup {sess.pages[page_index + 1].id}],
          status |-> "error", remaining_pages |-> 0]
    ELSE [session |-> [sess EXCEPT !.pages = SubSeq(@, 1, Len(@) - 1)],
          world |-> [w EXCEPT !.closed = @ \cup {sess.pages[page_index + 1].id},
                              !.close_called = @ \cup {sess.pages[page_index + 1].id}],
          status |-> "success", remaining_pages |-> Len(sess.pages) - 1]

playwright_close(sess, w, page_index, raises) ==
    IF page_index < 0 \/ page_index >= Len(sess.pages)
    THEN [session |-> sess, world |-> w, status |-> "error", remaining_pages |-> 0]
    ELSE IF raises
    THEN \* await self.pages[page_index].close() raised: the pop is not reached
         [session |-> sess,
          world |-> [w EXCEPT !.close_called = @ \cup {sess.pages[page_index + 1].id}],
          status |-> "error", remaining_pages |-> 0]
    ELSE \* self.pages.pop(page_index)
         [session |-> [sess EXCEPT !.pages = SubSeq(@, 1, page_index)
                                               \o SubSeq(@, page_index + 2, Len(@))],
          world |-> [w EXCEPT !.closed = @ \cup {sess.pages[page_index + 1].id},
                              !.close_called = @ \cup {sess.pages[page_index + 1].id}],
          status |-> "success", remaining_pages |-> Len(sess.pages) - 1]

ClosePage(page_index, raises) ==
    \E e \in {playwright_close(session, world, page_index, raises)} :
        ToolCall("playwright_close", page_index, IF raises THEN {"page"} ELSE {},
                 e.session, e.world, codegen_sessions, console_logs,
                 [call |-> "playwright_close", status |-> e.status,
                  remaining_pages |-> e.remaining_pages])

\* an open page of the collection writes a message on its console: the
\* listener of the page, if it has one, appends an entry to console_logs.
\* An entry has the keys type, text, location and time; text is the number
\* of the message; from is the page that wrote it, which is not in the entry
ConsoleMessage ==
    \E id \in OpenPages(session, world) :
        ToolCall("console_message", 0, {}, session, world, codegen_sessions,
                 IF id \in world.listening
                 THEN Append(console_logs,
                             [type |-> "log", text |-> Len(console_logs) + 1, from |-> id])
                 ELSE console_logs,
                 tool_result)

\* the logs playwright_console_logs(page_index, count) returns: the entries
\* whose key "page_index" (0 when the entry has no such key) is page_index,
\* and of them page_logs[-count:] if count < len(page_logs)
playwright_console_logs(logs, page_index, count) ==
    LET page_logs == SelectSeq(logs, LAMBDA log : 0 = page_index)
    IN IF count < Len(page_logs)
       THEN IF count = 0 THEN page_logs
            ELSE SubSeq(page_logs, Len(page_logs) - count + 1, Len(page_logs))
       ELSE page_logs

ConsoleLogs(page_index, count) ==
    \E e \in {_get_page(session, world, page_index, TRUE)} :
        ToolCall("playwright_console_logs", page_index, {}, e.session, e.world,
                 codegen_sessions, console_logs,
                 IF e.raised \/ e.page = <<>>
                 THEN [call |-> "playwright_console_logs", status |-> "error",
                       count |-> count, logs |-> <<>>]
                 ELSE [call |-> "playwright_console_logs", status |-> "success",
                       count |-> count,
                       logs |-> playwright_console_logs(console_logs, page_index, count)])

\* start_codegen_session(session_name, language): the id is made of the
\* number of the stored sessions plus one, and the session is stored under it
StartCodegen(session_name) ==
    LET session_id == Cardinality(DOMAIN codegen_sessions) + 1
        started == [id |-> session_id, name |-> session_name]
    IN ToolCall("start_codegen_session", 0, {}, session, world,
                [i \in DOMAIN codegen_sessions \cup {session_id} |->
                    IF i = session_id THEN started ELSE codegen_sessions[i]],
                console_logs,
                [call |-> "start_codegen_session", status |-> "success",
                 session |-> started])

\* end_codegen_session(session_id): an unknown id is an error; a stored
\* session is popped
EndCodegen(session_id) ==
    IF session_id \notin DOMAIN codegen_sessions
    THEN ToolCall("end_codegen_session", 0, {}, session, world, codegen_sessions,
                  console_logs,
                  [call |-> "end_codegen_session", status |-> "error",
                   session |-> [id |-> session_id, name |-> ""]])
    ELSE ToolCall("end_codegen_session", 0, {}, session, world,
                  [i \in DOMAIN codegen_sessions \ {session_id} |-> codegen_sessions[i]],
                  console_logs,
                  [call |-> "end_codegen_session", status |-> "success",
                   session |-> codegen_sessions[session_id]])

NextSession ==
    \/ \E launch_ok \in BOOLEAN : Initialize(launch_ok)
    \/ \E page_index \in {-1, 0, 1}, launch_ok \in BOOLEAN :
          PageOperation(page_index, launch_ok)
    \/ PageCloses
    \/ \E raises \in {{}, {"page"}} : Cleanup(raises)
    \/ \E raises \in {{}, {"page"}} : AgentClose(raises)
    \/ \E raises \in {{}, {"page"}, {"context"}, {"browser"}, {"context", "playwright"}} :
          Close(raises)
    \/ \E tool \in {"navigate", "click", "hover"}, elapsed \in 1..2 :
          Capture(tool, "", elapsed)
    \/ \E filename \in {"page", "result"}, elapsed \in 1..2 :
          Capture("screenshot", filename, elapsed)
    \/ \E page_index \in {-1, 0, 1, 2}, raises \in BOOLEAN : ClosePage(page_index, raises)
    \/ ConsoleMessage
    \/ \E page_index \in {0, 1}, count \in 0..MaxLogs : ConsoleLogs(page_index, count)
    \/ \E session_name \in {"login", "search"} : StartCodegen(session_name)
    \/ \E session_id \in 1..MaxSessions : EndCodegen(session_id)

SessionSpec == InitSession /\ [][NextSession]_vars

(***************************************************************************)
(* Two page operations at once: two tasks of the event loop are in         *)
(* _get_page, each running from one await to the next while the other      *)
(* waits.  op holds the two tasks: where a task is, its page_index, the     *)
(* browser it launched, the context it asked for a page, and the page it    *)
(* was given                                                                *)
(***************************************************************************)
\* the largest page_index of a task
MaxIndex == 1

InitRace ==
    LET Task(page_index) ==
            [at |-> "start", page_index |-> page_index, mine |-> 0, ctx |-> 0, page |-> 0]
    IN
    /\ AgentIdle
    /\ pc = "race"
    /\ rec_context = NoContext
    /\ rec_invoked = <<>>
    /\ rec_result = NoRecResult
    /\ loc_facts = NoLocFacts
    /\ loc_result = NoLocResult
    /\ act_facts = NoActFacts
    /\ act_result = NoActResult
    /\ session \in {Session(TRUE, 0, 0, <<>>, FALSE),
                    Session(TRUE, 1, 1, <<PageOf(1, 1)>>, TRUE)}
    /\ world = [NoWorld EXCEPT !.launches = session.browser,
                               !.created = Len(session.pages)]
    /\ op \in {[tasks |-> <<Task(i), Task(j)>>] : i, j \in 0..MaxIndex}
    /\ codegen_sessions = <<>>
    /\ console_logs = <<>>
    /\ tool_result = [call |-> "none"]
    /\ issues = <<>>
    /\ unique_issues = <<>>
    /\ counts = Counts(0, 0, 0)
    /\ score = 0
    /\ engine_run = <<>>
    /\ contrast = <<>>

\* task t runs from the await it waits in to its next await (or to its
\* return) in _get_page and _ensure_browser_initialized
GetPageStep(t) ==
    LET task == op.tasks[t]
        \* while len(self.pages) <= page_index: await self.context.new_page()
        Loop(sess) ==
            IF Len(sess.pages) <= task.page_index
            THEN [task EXCEPT !.at = "new_page", !.ctx = sess.context]
            ELSE [task EXCEPT !.at = "done", !.page = sess.pages[task.page_index + 1].id]
        Step(sess, w, tk) ==
            /\ session' = sess
            /\ world' = w
            /\ op' = [op EXCEPT !.tasks[t] = tk]
    IN
    /\ pc = "race"
    /\ CASE task.at = "start" ->
               \* if not self.browser_initialized: await ...chromium.launch(...)
               IF ~session.browser_initialized
               THEN Step(session, world, [task EXCEPT !.at = "launch"])
               ELSE Step(session, world, Loop(session))
         [] task.at = "launch" ->
               \* self.browser = <the browser>; await self.browser.new_context(...)
               Step([session EXCEPT !.browser = world.launches + 1],
                    [world EXCEPT !.launches = @ + 1],
                    [task EXCEPT !.at = "new_context", !.mine = world.launches + 1])
         [] task.at = "new_context" ->
               \* self.context = <the context>; self.browser_initialized = True;
               \* if len(self.pages) == 0: await self.context.new_page()
               Step([session EXCEPT !.context = task.mine, !.browser_initialized = TRUE],
                    world,
                    IF Len(session.pages) = 0
                    THEN [task EXCEPT !.at = "first_page", !.ctx = task.mine]
                    ELSE [task EXCEPT !.at = "maximize"])
         [] task.at = "first_page" ->
               \* page = <the page>; await page.set_viewport_size(viewport_size)
               Step(session, [world EXCEPT !.created = @ + 1],
                    [task EXCEPT !.at = "viewport", !.page = world.created + 1])
         [] task.at = "viewport" ->
               \* self.pages.append(page); await ...new_cdp_session(self.pages[0])
               Step([session EXCEPT !.pages = Append(@, PageOf(task.page, task.ctx))],
                    world, [task EXCEPT !.at = "maximize"])
         [] task.at = "maximize" ->
               \* back in _get_page
               Step(session, world, Loop(session))
         [] task.at = "new_page" ->
               \* self.pages.append(new_page), and the while loop again
               Step([session EXCEPT !.pages = Append(@, PageOf(world.created + 1, task.ctx))],
                    [world EXCEPT !.created = @ + 1,
                                  !.listening = @ \cup {world.created + 1}],
                    Loop([session EXCEPT
                             !.pages = Append(@, PageOf(world.created + 1, task.ctx))]))
         [] OTHER -> FALSE
    /\ UNCHANGED <<user_goal, conversation_history, completion_check, loopVars,
                   recVars, locVars, actVars, auditVars,
                   codegen_sessions, console_logs, tool_result>>

NextRace == \E t \in 1..2 : GetPageStep(t)

RaceSpec == InitRace /\ [][NextRace]_vars

(***************************************************************************)
(* The report on its own: a list of issues is deduplicated, or the score   *)
(* of a report is calculated                                               *)
(***************************************************************************)
\* issues per list
MaxIssues == 3
\* engines asked for in one run
MaxEngines == 3
\* characters after the "#" of a color
MaxHex == 6
\* numbers in an "rgb" color
MaxNumbers == 4

\* self.engines: the names of the engines (three of the eleven)
self_engines == <<"axe", "pa11y", "lighthouse">>

\* issues of one kind per report
MaxCount == 11

InitAudit ==
    LET RECURSIVE IssueLists(_)
        \* the lists of n issues
        IssueLists(n) ==
            LET \* the issues the lists are built from: selectors and titles with and
                \* without a colon, two descriptions
                IssueSet ==
                    LET \* an issue: its fields wcag_criterion, selector, title and description;
                        \* a text field is the sequence of its pieces, ":" being a piece
                        AccessibilityIssue(wcag_criterion, selector, title, description) ==
                            [wcag_criterion |-> wcag_criterion, selector |-> selector, title |-> title,
                             description |-> description]
                    IN
                    {AccessibilityIssue(<<"1.4.3">>, sel, title, d) :
                        sel \in {<<"a">>, <<"a", ":", "hover">>},
                        title \in {<<"Low contrast">>, <<"hover", ":", "Low contrast">>},
                        d \in {"found by axe", "found by pa11y"}}
            IN
            IF n = 0 THEN {<<>>}
            ELSE {Append(l, i) : l \in IssueLists(n - 1), i \in IssueSet}
    IN
    LET \* the calls of the checker: check_wcag_compliance on ratios around the
        \* thresholds and font sizes around 14 and 18, and _parse_color on strings
        \* of up to MaxHex characters after "#", on "rgb" strings with up to
        \* MaxNumbers numbers, and on words
        ContrastCalls ==
            LET \* a color string after strip().lower(): "#" and the characters after it,
                \* "rgb" and the runs of digits in it, or another word
                Color(form, body) == [form |-> form, body |-> body]
            IN
            LET RECURSIVE Strings(_, _)
                Strings(n, alphabet) ==
                    IF n = 0 THEN {<<>>}
                    ELSE {Append(l, x) : l \in Strings(n - 1, alphabet), x \in alphabet}
            IN
            {[call |-> "check_wcag_compliance", ratio |-> r, font_size |-> f, bold |-> b] :
                r \in {299, 300, 301, 449, 450, 451, 699, 700, 701},
                f \in {13, 14, 17, 18, 19}, b \in BOOLEAN}
            \cup {[call |-> "_parse_color", color |-> Color("#", l)] :
                    l \in UNION {Strings(n, {"0", "f", "g"}) : n \in 0..MaxHex}}
            \cup {[call |-> "_parse_color", color |-> Color("rgb", l)] :
                    l \in UNION {Strings(n, {0, 255}) : n \in 0..MaxNumbers}}
            \cup {[call |-> "_parse_color", color |-> Color("word", w)] :
                    w \in {"white", "black", "gray", "hsl(0, 0%, 100%)", "nosuch"}}
    IN
    LET \* the runs: the engines asked for (a list of names, known or not, that
        \* is left out when default is set) and what each engine of self.engines
        \* does when it is called
        EngineRuns ==
            LET names == SeqRange(self_engines) \cup {"nosuch"}
                RECURSIVE Lists(_)
                Lists(n) == IF n = 0 THEN {<<>>}
                            ELSE {Append(l, x) : l \in Lists(n - 1), x \in names}
            IN
            {[engines |-> l, default |-> n, does |-> d] :
                l \in UNION {Lists(n) : n \in 0..MaxEngines}, n \in BOOLEAN,
                d \in [SeqRange(self_engines) ->
                          {"violation", "warning", "not installed", "raises"}]}
    IN
    /\ AgentIdle
    /\ pc \in {"deduplicate", "score", "audit", "contrast"}
    /\ rec_context = NoContext
    /\ rec_invoked = <<>>
    /\ rec_result = NoRecResult
    /\ loc_facts = NoLocFacts
    /\ loc_result = NoLocResult
    /\ act_facts = NoActFacts
    /\ act_result = NoActResult
    /\ session = NewSession
    /\ world = NoWorld
    /\ op = NoOp
    /\ codegen_sessions = <<>>
    /\ console_logs = <<>>
    /\ tool_result = [call |-> "none"]
    /\ issues \in (IF pc = "deduplicate"
                   THEN UNION {IssueLists(n) : n \in 0..MaxIssues} ELSE {<<>>})
    /\ unique_issues = <<>>
    /\ counts \in (IF pc = "score"
                   THEN {Counts(v, w, m) : v \in 0..MaxCount, w \in 0..MaxCount,
                                           m \in 0..MaxCount}
                   ELSE {Counts(0, 0, 0)})
    /\ score = 0
    /\ engine_run \in (IF pc = "audit" THEN EngineRuns ELSE {<<>>})
    /\ contrast \in (IF pc = "contrast" THEN ContrastCalls ELSE {<<>>})

\* unique_issues = self._deduplicate_issues(all_issues)
Deduplicate ==
    /\ pc = "deduplicate"
    /\ unique_issues' = _deduplicate_issues(issues)
    /\ pc' = "deduplicated"
    /\ UNCHANGED <<user_goal, conversation_history, step_count, failure_count,
                   current_phase, llm_response, decision, result, iteration,
                   completion_check, llm_calls, env, parse_path, recVars, locVars,
                   actVars, sessVars, issues, counts, score, engine_run, contrast>>

\* score = self._calculate_accessibility_score(violations, warnings, manual_checks)
Score ==
    /\ pc = "score"
    /\ score' = _calculate_accessibility_score(counts)
    /\ pc' = "scored"
    /\ UNCHANGED <<user_goal, conversation_history, step_count, failure_count,
                   current_phase, llm_response, decision, result, iteration,
                   completion_check, llm_calls, env, parse_path, recVars, locVars,
                   actVars, sessVars, issues, unique_issues, counts, engine_run,
                   contrast>>

\* report = await tester.run_comprehensive_test(url, engines)
RunComprehensiveTest ==
    LET \* engines, with list(self.engines.keys()) for None
        engines == IF engine_run.default THEN self_engines ELSE engine_run.engines
        RECURSIVE AllIssues(_)
        \* all_issues after the engines from the i-th on
        AllIssues(i) ==
            IF i > Len(engines) THEN <<>>
            ELSE EngineIssues(engine_run, engines[i]) \o AllIssues(i + 1)
        OfType(list, type) == SelectSeq(list, LAMBDA issue : issue.type = type)
    IN
    /\ pc = "audit"
    /\ issues' = AllIssues(1)
    /\ unique_issues' = _deduplicate_issues(issues')
    /\ counts' = Counts(Len(OfType(unique_issues', "violation")),
                        Len(OfType(unique_issues', "warning")),
                        Len(OfType(unique_issues', "manual_check")))
    /\ score' = _calculate_accessibility_score(counts')
    /\ pc' = "reported"
    /\ UNCHANGED <<user_goal, conversation_history, step_count, failure_count,
                   current_phase, llm_response, decision, result, iteration,
                   completion_check, llm_calls, env, parse_path, recVars, locVars,
                   actVars, sessVars, engine_run, contrast>>

\* compliance = checker.check_wcag_compliance(ratio, font_size, bold)
CheckCompliance ==
    /\ pc = "contrast"
    /\ contrast.call = "check_wcag_compliance"
    /\ contrast' = [call |-> contrast.call, ratio |-> contrast.ratio,
                    font_size |-> contrast.font_size, bold |-> contrast.bold,
                    value |-> check_wcag_compliance(contrast.ratio, contrast.font_size,
                                                    contrast.bold)]
    /\ pc' = "checked"
    /\ UNCHANGED <<user_goal, conversation_history, step_count, failure_count,
                   current_phase, llm_response, decision, result, iteration,
                   completion_check, llm_calls, env, parse_path, recVars, locVars,
                   actVars, sessVars, issues, unique_issues, counts, score, engine_run>>

\* rgb = ColorContrastChecker._parse_color(color), followed by
\* _get_relative_luminance(rgb) as in calculate_contrast_ratio
ParseColor ==
    LET \* int(c, 16) of one character
        Digit(c) == IF c = "f" THEN 15 ELSE 0
        \* int(color[i:i+2], 16), with i counted from 0: <<-1>> for
        \* ValueError, <<n>> otherwise
        Channel(color, i) ==
            LET pair == SubSeq(color, i + 1, IF i + 2 <= Len(color) THEN i + 2 ELSE Len(color))
            IN IF pair = <<>> \/ "g" \in SeqRange(pair) THEN <<-1>>
               ELSE IF Len(pair) = 1 THEN <<Digit(pair[1])>>
               ELSE <<16 * Digit(pair[1]) + Digit(pair[2])>>
        \* the branch for colors that start with "#"
        Hex(body) ==
            LET color == IF Len(body) = 3
                         THEN <<body[1], body[1], body[2], body[2], body[3], body[3]>>
                         ELSE body
                channels == Channel(color, 0) \o Channel(color, 2) \o Channel(color, 4)
            IN IF \E i \in 1..3 : channels[i] < 0
               THEN [raised |-> TRUE, rgb |-> <<>>]
               ELSE [raised |-> FALSE, rgb |-> channels]
        \* the branch for colors that start with "rgb": numbers[:3]
        Rgb(numbers) ==
            [raised |-> FALSE,
             rgb |-> IF Len(numbers) <= 3 THEN numbers ELSE SubSeq(numbers, 1, 3)]
        \* named_colors.get(color, (0, 0, 0))
        Named(word) ==
            [raised |-> FALSE,
             rgb |-> CASE word = "white" -> <<255, 255, 255>>
                       [] word = "gray" -> <<128, 128, 128>>
                       [] OTHER -> <<0, 0, 0>>]
        _parse_color(color) ==
            CASE color.form = "#" -> Hex(color.body)
              [] color.form = "rgb" -> Rgb(color.body)
              [] OTHER -> Named(color.body)
        \* r, g, b = rgb in _get_relative_luminance
        Luminance(parsed) ==
            IF parsed.raised THEN "not called"
            ELSE IF Len(parsed.rgb) = 3 THEN "ok" ELSE "raises"
    IN
    /\ pc = "contrast"
    /\ contrast.call = "_parse_color"
    /\ \E parsed \in {_parse_color(contrast.color)} :
          contrast' = [call |-> contrast.call, color |-> contrast.color,
                       raised |-> parsed.raised, rgb |-> parsed.rgb,
                       luminance |-> Luminance(parsed)]
    /\ pc' = "parsed"
    /\ UNCHANGED <<user_goal, conversation_history, step_count, failure_count,
                   current_phase, llm_response, decision, result, iteration,
                   completion_check, llm_calls, env, parse_path, recVars, locVars,
                   actVars, sessVars, issues, unique_issues, counts, score, engine_run>>

NextAudit ==
    \/ Deduplicate
    \/ Score
    \/ RunComprehensiveTest
    \/ CheckCompliance
    \/ ParseColor

AuditSpec == InitAudit /\ [][NextAudit]_vars

(***************************************************************************)
(* Properties of the orchestration loop                                    *)
(***************************************************************************)
\* C1: after every plan step that executes successfully, a locate step
\* leaves the loop in phase action, an action step in phase verify, and a
\* verify step either ends the loop on a passed completion check or leaves
\* it in phase locate.
C1_SuccessfulStepAdvances ==
    (iteration.kind = "plan" /\ result.success) =>
        /\ decision.phase = "locate" => current_phase = "action"
        /\ decision.phase = "action" => current_phase = "verify"
        /\ decision.phase = "verify" =>
              \/ pc = "done" /\ completion_check = "yes"
              \/ current_phase = "locate"

\* C2: every iteration that fails (the step reports success = false, or the
\* iteration raises) leaves the phase unchanged and increases failure_count
\* by exactly one.
C2_FailureCounted ==
    [][(/\ step_count' = step_count + 1
        /\ \/ iteration'.kind = "exception"
           \/ iteration'.kind = "plan" /\ ~result'.success)
       => (current_phase' = current_phase /\ failure_count' = failure_count + 1)]_vars

\* C3: the loop terminates for every behaviour of the decision source and
\* of the tools, and the decision source is consulted at most max_steps
\* (30) times.
C3_Terminates ==
    /\ [](llm_calls <= max_steps /\ step_count <= max_steps)
    /\ <>(pc = "done")

\* C3 witness: a decision source that raises every time has been consulted
\* max_steps times and the loop has ended
C3_Witness ==
    /\ pc = "done"
    /\ llm_calls = max_steps
    /\ iteration.kind = "exception"
    /\ env.llm = "raise"

\* C4 as stated: the loop stops before the budget is exhausted only in an
\* iteration in which _check_goal_completion returned true.
C4_StopsOnlyOnGoalCheck ==
    (pc = "done" /\ step_count < max_steps) => completion_check = "yes"

\* C4 amended: the loop stops before the budget is exhausted only in an
\* iteration in which _check_goal_completion returned true after a
\* successful verify step, or in which the validated decision has the
\* action "complete".
C4_StopsOnGoalCheckOrSignal ==
    (pc = "done" /\ step_count < max_steps) =>
        \/ /\ iteration.kind = "plan"
           /\ decision.phase = "verify"
           /\ result.success
           /\ completion_check = "yes"
        \/ /\ iteration.kind = "complete"
           /\ decision.action = "complete"

\* C4 witness: prose that starts with a completion phrase ended the loop in
\* its first iteration, without a completion check
C4_Witness ==
    /\ pc = "done"
    /\ step_count = 1
    /\ parse_path = "fallback"
    /\ decision.action = "complete"
    /\ completion_check = "none"

\* the response is a JSON record whose action is "complete"
WellFormedComplete(response) ==
    /\ ParsePath(response) = "try1"
    /\ ParsedRecord(response).action = "complete"

\* C5: when the decision source returns a well-formed record whose action
\* is "complete", the loop ends in that iteration without executing a tool.
C5_CompleteEndsLoop ==
    (step_count > 0 /\ env.llm = "ok" /\ WellFormedComplete(llm_response)) =>
        /\ pc = "done"
        /\ iteration.broke
        /\ ~iteration.executed

(***************************************************************************)
(* Properties of the parser                                                *)
(***************************************************************************)
\* C6: for every response _parse_and_validate_llm_response returns without
\* raising, and whenever it answers with the keyword fallback the decision
\* is "complete", or a "plan" with a phase in {locate, action, verify} and
\* a tool _execute_sophisticated_step can dispatch.
C6_ParserNeverRaises ==
    pc = "parsed" =>
        /\ decision # Raised
        /\ UsedFallback(llm_response) =>
              \/ decision.action = "complete"
              \/ /\ decision.action = "plan"
                 /\ decision.phase \in {"locate", "action", "verify"}
                 /\ Dispatchable(decision.tool)

(***************************************************************************)
(* Properties of the completion check                                      *)
(***************************************************************************)
\* every required tag of the goal has evidence in the transcript
AllTagsHaveEvidence(goal, conversation) ==
    \A i \in 1..Len(RequiredSteps(goal)) :
        StepCompleted(RequiredSteps(goal)[i], ConversationText(conversation))

\* the transcript without its success markers
WithoutSuccess(conversation) ==
    [i \in 1..Len(conversation) |->
        [conversation[i] EXCEPT !.content = SelectSeq(@, LAMBDA tok : tok # "SUCCESS")]]

\* C7: the check returns true only when every required tag has
\* evidence, and for no goal do the success markers of the recent steps
\* decide it: the check answers the same without them.
C7_NeverByCounting ==
    completion_check = "yes" =>
        /\ AllTagsHaveEvidence(user_goal, conversation_history)
        /\ _check_goal_completion(user_goal, WithoutSuccess(conversation_history))

\* the tools whose successful step is evidence for a tag
ToolsForTag(step) ==
    CASE step = "screenshot"     -> {"playwright_screenshot"}
      [] step = "accessibility"  -> {"check_accessibility"}
      [] step = "remove_element" -> {"playwright_click", "unified_click"}
      [] IsClickTag(step)        -> {"playwright_click", "unified_click"}
      [] OTHER                   -> {}

\* the transcript reports a successful step of a tool for the tag: the
\* feedback of a successful step is SUCCESS, phase, description, tool, ...
StepRanFor(step, conversation) ==
    \E i \in 1..Len(conversation) :
        /\ conversation[i].role = "user"
        /\ Len(conversation[i].content) >= 4
        /\ conversation[i].content[1] = "SUCCESS"
        /\ conversation[i].content[4] \in ToolsForTag(step)

\* C8: a required tag screenshot, click_N_times, remove_element or
\* accessibility is not counted as completed on a history in which no step
\* for it has been executed, so the check is false until every such step
\* has run.
C8_WordingIsNoEvidence ==
    completion_check = "yes" =>
        \A i \in 1..Len(RequiredSteps(user_goal)) :
            RequiredSteps(user_goal)[i] # "navigation" =>
                StepRanFor(RequiredSteps(user_goal)[i], conversation_history)

\* a phrase "click ... N times" from token i to the count at token j, with
\* no full stop between them
ClickPhrase(goal, i, j) ==
    /\ i \in 1..Len(goal)
    /\ j \in (i + 1)..(Len(goal) - 1)
    /\ "click" \in LowerKw(goal[i])
    /\ goal[j] \in {"1", "2", "3"}
    /\ goal[j + 1] \in {"time", "times"}
    /\ \A k \in (i + 1)..j : goal[k] \notin {".", "url.com"}

HasClickPhrase(goal) ==
    \E i \in 1..Len(goal) : \E j \in 1..Len(goal) : ClickPhrase(goal, i, j)

\* the count of the first phrase: the leftmost start, then the nearest count
FirstClickCount(goal) ==
    LET i0 == CHOOSE i \in 1..Len(goal) :
                 /\ \E j \in 1..Len(goal) : ClickPhrase(goal, i, j)
                 /\ \A h \in 1..(i - 1) : \A j \in 1..Len(goal) : ~ClickPhrase(goal, h, j)
        j0 == CHOOSE j \in 1..Len(goal) :
                 /\ ClickPhrase(goal, i0, j)
                 /\ \A h \in 1..(j - 1) : ~ClickPhrase(goal, i0, h)
    IN NumVal(goal[j0])

ContainsAny(goal, words) ==
    \E i \in 1..Len(goal) : LowerKw(goal[i]) \cap words # {}

\* the tags the decomposition of a goal must yield
ExpectedTags(goal) ==
    (IF ContainsAny(goal, {"navigate", "go to", "visit"}) THEN {"navigation"} ELSE {})
    \cup (IF HasClickPhrase(goal) THEN {ClickTag(FirstClickCount(goal))} ELSE {})
    \cup (IF ContainsAny(goal, {"remove", "delete"}) THEN {"remove_element"} ELSE {})
    \cup (IF ContainsAny(goal, {"screenshot"}) THEN {"screenshot"} ELSE {})
    \cup (IF ContainsAny(goal, {"accessibility", "a11y", "wcag", "accessiblity"})
          THEN {"accessibility"} ELSE {})

LadderOrder ==
    <<"iframe_context", "shadow_dom", "dynamic_wait", "visual_approach",
      "alternative_selectors">>

\* C10: recover invokes its strategies in the order iframe context, shadow
\* DOM, dynamic wait, visual approach, alternative selectors; it returns
\* the result of the first strategy that reports success and invokes no
\* strategy after it.
C10_FirstSuccessWins ==
    pc = "recovered" =>
        /\ Len(rec_invoked) \in 1..Len(LadderOrder)
        /\ \A i \in 1..Len(rec_invoked) : rec_invoked[i] = LadderOrder[i]
        /\ \A i \in 1..(Len(rec_invoked) - 1) :
              ~RunStrategy(rec_invoked[i], rec_context).success
        /\ IF \E i \in 1..Len(LadderOrder) : RunStrategy(LadderOrder[i], rec_context).success
           THEN /\ rec_result.success
                /\ rec_result = RunStrategy(rec_invoked[Len(rec_invoked)], rec_context)
           ELSE /\ ~rec_result.success
                /\ Len(rec_invoked) = Len(LadderOrder)

\* C10 witness: the first two strategies failed, the dynamic wait succeeded
\* and the two strategies after it, which would have succeeded, were not
\* invoked
C10_Witness ==
    /\ pc = "recovered"
    /\ rec_invoked = <<"iframe_context", "shadow_dom", "dynamic_wait">>
    /\ rec_result.success
    /\ rec_result.strategy = "dynamic_wait"
    /\ rec_context.elements
    /\ rec_context.alt_visible

\* C11: when a strategy raises, recover goes on with the next strategy of
\* the list, and no exception of a strategy leaves recover: it returns the
\* result of a later strategy that succeeds or the aggregate failure.
C11_StrategyErrorIsFailure ==
    (pc = "recovered" /\ rec_context.raising \in SeqRange(rec_invoked)) =>
        /\ rec_result.message # "#raised"
        /\ \A i \in 1..Len(rec_invoked) :
              rec_invoked[i] = rec_context.raising =>
                 IF i < Len(recovery_strategies)
                 THEN /\ Len(rec_invoked) > i
                      /\ rec_invoked[i + 1] = recovery_strategies[i + 1]
                 ELSE rec_result = RecResult(FALSE, "", "All recovery strategies failed")

\* C11 witness: the dynamic wait raised, and recover went on and returned
\* the success of the visual approach
C11_Witness ==
    /\ pc = "recovered"
    /\ rec_context.raising = "dynamic_wait"
    /\ rec_invoked = <<"iframe_context", "shadow_dom", "dynamic_wait", "visual_approach">>
    /\ rec_result.success
    /\ rec_result.strategy = "visual_approach"

\* C12: when every strategy fails, the result of recover and of
\* playwright_multi_strategy_locate reports the failure and carries a list
\* strategies_tried with one name for each configured strategy.
C12_ExhaustionListsStrategies ==
    /\ (/\ pc = "located"
        /\ loc_facts.analyzer # "raise"
        /\ BestStrategy(Strategies(loc_facts)) = <<>>) =>
           /\ loc_result.status = "error"
           /\ "strategies_tried" \in DOMAIN loc_result
           /\ Len(loc_result.strategies_tried) = Len(configured_strategies)
    /\ (/\ pc = "recovered"
        /\ \A i \in 1..Len(recovery_strategies) :
              ~RunStrategy(recovery_strategies[i], rec_context).success) =>
           /\ ~rec_result.success
           /\ "strategies_tried" \in DOMAIN rec_result
           /\ Len(rec_result.strategies_tried) = Len(recovery_strategies)

\* no strategy of the locator has a candidate: the analysis matched no
\* field or element, the visual finder detected none, and no element has
\* the role
NoElementFound(f) ==
    /\ f.analyzer # "ok" \/ f.candidates = 0
    /\ ~f.finder \/ f.visual_status # "success" \/ f.visual_elements = 0
    /\ f.role # "success"

\* C15: when playwright_multi_strategy_locate finds no element, its result
\* is a failure (status error, element_found not true) and reports no
\* action as performed.
C15_EmptyIsFailure ==
    (pc = "located" /\ NoElementFound(loc_facts)) =>
        /\ loc_result.status = "error"
        /\ "element_found" \in DOMAIN loc_result => ~loc_result.element_found
        /\ "action_performed" \in DOMAIN loc_result =>
              loc_result.action_performed = "None"

(***************************************************************************)
(* Properties of the actions on elements                                   *)
(***************************************************************************)
\* the action failed on its element: not found, timeout or interaction error
ElementFailure(f, r) ==
    /\ f.page_index >= 0
    /\ f.element \in {"absent", "hidden", "broken"}
    /\ r.status = "error"

\* C13: when a click or a fill fails on its element (not found, timeout,
\* interaction error), recover has been run before the failure is returned,
\* and every strategy of recover has failed.
C13_RecoveryBeforeFailure ==
    (pc = "acted" /\ ElementFailure(act_facts, act_result)) =>
        /\ rec_invoked = recovery_strategies
        /\ ~rec_result.success
        /\ rec_result.message = "All recovery strategies failed"

\* C14: when the wait for the element exceeds its timeout, the result
\* names a timeout, and it differs from the result for an element that does
\* not exist and from the result of an interaction error.
C14_TimeoutIsDistinct ==
    (/\ pc = "acted"
     /\ act_facts.element = "hidden"
     /\ ElementFailure(act_facts, act_result)) =>
        /\ act_result.message = <<TimeoutText>>
        /\ act_result # ActionResult([act_facts EXCEPT !.element = "absent"])
        /\ act_result # ActionResult([act_facts EXCEPT !.element = "broken"])

(***************************************************************************)
(* Properties of the browser session                                       *)
(***************************************************************************)
\* C16: cleanup() awaits close() on every open page of the list and
\* empties the list, and leaves browser, context and browser_initialized as
\* they were; the page operation after it gets a fresh page of the same
\* context and launches no browser.
C16_CleanupKeepsBrowser ==
    /\ op.name = "cleanup" =>
          /\ session.pages = <<>>
          /\ OpenPages(op.before, op.world_before) \subseteq world.close_called
          /\ session.browser = op.before.browser
          /\ session.context = op.before.context
          /\ session.browser_initialized = op.before.browser_initialized
          /\ world.launches = op.world_before.launches
    /\ (/\ op.name = "page_operation"
        /\ op.prev = "cleanup"
        /\ op.page_index >= 0
        /\ op.before.browser_initialized) =>
          /\ ~op.raised
          /\ world.launches = op.world_before.launches
          /\ session.browser = op.before.browser
          /\ session.context = op.before.context
          /\ Len(session.pages) = op.page_index + 1
          /\ \A i \in 1..Len(session.pages) :
                /\ session.pages[i].id > op.world_before.created
                /\ session.pages[i].id \notin world.closed
                /\ session.pages[i].context = op.before.context

\* C16 witness: after a cleanup of a session with a browser, a page
\* operation got a page that did not exist before, and one browser has
\* been launched in all
C16_Witness ==
    /\ op.name = "page_operation"
    /\ op.prev = "cleanup"
    /\ op.page_index = 0
    /\ op.before.browser_initialized
    /\ op.before.pages = <<>>
    /\ Len(session.pages) = 1
    /\ world.closed # {}
    /\ world.launches = 1

\* C17: after close() the list of pages is empty, context, browser and
\* playwright are unset and browser_initialized is false, whichever of its
\* steps raised.
C17_CloseResets ==
    op.name = "close" =>
        /\ session.pages = <<>>
        /\ session.context = 0
        /\ session.browser = 0
        /\ ~session.playwright
        /\ ~session.browser_initialized

\* C17 witness: close() of a session with a browser and a page has
\* returned although closing the context and stopping Playwright raised
C17_Witness ==
    /\ op.name = "close"
    /\ op.raises = {"context", "playwright"}
    /\ op.before.browser_initialized
    /\ op.before.pages # <<>>
    /\ session = NewSession

\* C18: no two captures of a session write the same path.
C18_CapturesNeverCollide ==
    \A i \in 1..Len(world.files) : \A j \in 1..Len(world.files) :
        i # j => world.files[i] # world.files[j]

(***************************************************************************)
(* Properties of the accessibility report                                  *)
(***************************************************************************)
\* the (criterion, selector, title) triple of an issue
Triple(issue) == <<issue.wcag_criterion, issue.selector, issue.title>>

\* the first occurrence of every triple of a list, in the order of the list
FirstPerTriple(list) ==
    LET first == {i \in 1..Len(list) :
                     \A j \in 1..(i - 1) : Triple(list[j]) # Triple(list[i])}
        RECURSIVE Pick(_)
        Pick(i) == IF i > Len(list) THEN <<>>
                   ELSE (IF i \in first THEN <<list[i]>> ELSE <<>>) \o Pick(i + 1)
    IN Pick(1)

\* C19: _deduplicate_issues returns the first occurrence of every distinct
\* (criterion, selector, title) triple of its input, in the original
\* order: equal triples are merged and different triples are all kept.
C19_OnePerTriple ==
    pc = "deduplicated" => unique_issues = FirstPerTriple(issues)

\* C20: the score is 100 when there are no violations and no warnings, and
\* otherwise max(0, 100 - 10v - 5w - 2m); it lies between 0 and 100.
C20_ScoreFormula ==
    pc = "scored" =>
        /\ (counts.violations = 0 /\ counts.warnings = 0) => score = 100
        /\ ~(counts.violations = 0 /\ counts.warnings = 0) =>
              \E penalty \in {10 * counts.violations + 5 * counts.warnings
                               + 2 * counts.manual_checks} :
                 /\ penalty <= 100 => score = 100 - penalty
                 /\ penalty > 100 => score = 0
        /\ score \in 0..100

\* C20 witness: a report whose penalties exceed 100 scores 0
C20_Witness ==
    /\ pc = "scored"
    /\ 10 * counts.violations + 5 * counts.warnings + 2 * counts.manual_checks > 100
    /\ counts.manual_checks > 0
    /\ score = 0

\* the engines of a run that are asked for, known, and return issues
WorkingEngines ==
    {x \in DOMAIN engine_run.does :
        /\ engine_run.does[x] \in {"violation", "warning"}
        /\ engine_run.default \/ x \in SeqRange(engine_run.engines)}

\* C21: whatever the engines asked for do (raise, not installed, unknown
\* name), run_comprehensive_test returns a report; the report is built from
\* the issues of the remaining engines and holds no issue of a failing one.
C21_FailingEngineSkipped ==
    /\ pc = "audit" => ENABLED RunComprehensiveTest
    /\ pc = "reported" =>
          /\ {issues[i].id : i \in 1..Len(issues)} = WorkingEngines
          /\ {unique_issues[i].id : i \in 1..Len(unique_issues)} = WorkingEngines
          /\ counts.violations + counts.warnings = Len(unique_issues)

\* C21 witness: a report built while one engine raised, one name was not
\* known and another engine returned issues
C21_Witness ==
    /\ pc = "reported"
    /\ ~engine_run.default
    /\ "nosuch" \in SeqRange(engine_run.engines)
    /\ \E x \in SeqRange(engine_run.engines) \cap DOMAIN engine_run.does :
          engine_run.does[x] = "raises"
    /\ unique_issues # <<>>

(***************************************************************************)
(* Properties of the color contrast checker                                *)
(***************************************************************************)
\* C22: text is large iff font_size >= 18, or font_size >= 14 and bold; AA
\* passes iff the ratio is at least 3.0 for large text and 4.5 otherwise, AAA
\* iff it is at least 4.5 for large text and 7.0 otherwise; the boundaries
\* are inclusive.
C22_Thresholds ==
    pc = "checked" =>
        LET large == contrast.font_size >= 18 \/ (contrast.font_size >= 14 /\ contrast.bold)
        IN /\ contrast.value.AA <=> contrast.ratio >= (IF large THEN 300 ELSE 450)
           /\ contrast.value.AAA <=> contrast.ratio >= (IF large THEN 450 ELSE 700)
           /\ (contrast.ratio = 450 /\ contrast.font_size = 14 /\ ~contrast.bold)
                 => contrast.value.AA
           /\ (contrast.ratio = 449 /\ contrast.font_size = 14 /\ ~contrast.bold)
                 => ~contrast.value.AA
           /\ (contrast.ratio = 300 /\ contrast.font_size = 18) => contrast.value.AA
           /\ (contrast.ratio = 300 /\ contrast.font_size = 17 /\ ~contrast.bold)
                 => ~contrast.value.AA

\* C22 witness: bold text of size 14 passes AA at the ratio 3.0
C22_Witness ==
    /\ pc = "checked"
    /\ contrast.ratio = 300 /\ contrast.font_size = 14 /\ contrast.bold
    /\ contrast.value.AA /\ ~contrast.value.AAA

\* is the color a valid #rgb / #rrggbb value, a well-formed rgb()/rgba()
\* value or a name of the table?
ValidColor(color) ==
    CASE color.form = "#" -> Len(color.body) \in {3, 6} /\ "g" \notin SeqRange(color.body)
      [] color.form = "rgb" -> Len(color.body) \in {3, 4}
      [] OTHER -> color.body \in {"white", "black", "gray"}

\* C23: _parse_color never raises and always returns three channels; every
\* string that is not a valid color is parsed as black, so that
\* calculate_contrast_ratio gets a luminance for every string.
C23_UnknownIsBlack ==
    pc = "parsed" =>
        /\ ~contrast.raised
        /\ Len(contrast.rgb) = 3
        /\ ~ValidColor(contrast.color) => contrast.rgb = <<0, 0, 0>>
        /\ contrast.luminance = "ok"

(***************************************************************************)
(* Further properties of the loop                                          *)
(***************************************************************************)
\* the feedback of the last plan step: the last message of the transcript
LastFeedback == SeqRange(conversation_history[Len(conversation_history)].content)

\* C24: when a plan step fails and failure_count has reached max_failures,
\* the feedback appended to the transcript is the max-failures prompt and
\* not the retry hint; below the threshold it is the retry hint.
C24_RecoveryPromptAtThreshold ==
    (pc \in {"loop", "done"} /\ iteration.kind = "plan" /\ ~result.success) =>
        /\ "FAILURE" \in LastFeedback
        /\ failure_count >= max_failures =>
              /\ "Max failures reached" \in LastFeedback
              /\ "Try alternative approach" \notin LastFeedback
        /\ failure_count < max_failures =>
              /\ "Try alternative approach" \in LastFeedback
              /\ "Max failures reached" \notin LastFeedback

\* C24 witness: the third failure in a row gets the max-failures prompt
C24_Witness ==
    /\ pc = "loop"
    /\ iteration.kind = "plan" /\ ~result.success
    /\ failure_count = max_failures
    /\ "Max failures reached" \in LastFeedback

\* the tags of the goal that are completed by a transcript
CompletedTags(conversation) ==
    {step \in SeqRange(RequiredSteps(user_goal)) :
        StepCompleted(step, ConversationText(conversation))}

\* C25: completion is monotonic within a session: once the check is true
\* for the transcript it is true for every longer transcript of the session,
\* and the set of completed tags never shrinks as messages are appended.
C25_CompletionMonotonic ==
    pc = "check" =>
        \A k \in 1..Len(conversation_history) :
            \E earlier \in {SubSeq(conversation_history, 1, k)} :
                /\ _check_goal_completion(user_goal, earlier)
                      => _check_goal_completion(user_goal, conversation_history)
                /\ CompletedTags(earlier) \subseteq CompletedTags(conversation_history)

\* C26: whatever phase labels the decisions carry, current_phase changes
\* only along locate -> action, action -> verify and verify -> locate; it
\* never moves from locate to verify directly.
C26_PhaseEdges ==
    [][pc = "loop" =>
          \/ current_phase' = current_phase
          \/ <<current_phase, current_phase'>> \in
                {<<"locate", "action">>, <<"action", "verify">>, <<"verify", "locate">>}]_vars

(***************************************************************************)
(* Further properties of the parser                                        *)
(***************************************************************************)
\* C27: the parser returns the record of the earliest of its four attempts
\* that yields a JSON object with an action field, and uses the keyword
\* fallback only when all four attempts fail.
C27_EarliestAttemptWins ==
    pc = "parsed" =>
        \E cleaned \in {Cleaned(llm_response)} :
           /\ Try1(cleaned) # <<>> => decision = Try1(cleaned)[1]
           /\ (Try1(cleaned) = <<>> /\ Try2(cleaned) # <<>>) => decision = Try2(cleaned)[1]
           /\ (Try1(cleaned) = <<>> /\ Try2(cleaned) = <<>> /\ Try3(cleaned) # <<>>)
                 => decision = Try3(cleaned)[1]
           /\ (Try1(cleaned) = <<>> /\ Try2(cleaned) = <<>> /\ Try3(cleaned) = <<>>
               /\ Try4(cleaned) # <<>>) => decision = Try4(cleaned)[1]
           /\ UsedFallback(llm_response) =>
                 (Try1(cleaned) = <<>> /\ Try2(cleaned) = <<>> /\ Try3(cleaned) = <<>>
                  /\ Try4(cleaned) = <<>>)

(***************************************************************************)
(* Further properties of the actions on elements                           *)
(***************************************************************************)
\* C28: playwright_fill runs its stages in the order standard fill,
\* multi-strategy locate, vision locate, accessibility locate, JS locate,
\* common selector patterns; it enters the fallback stages only after a
\* timeout of the standard fill, runs a stage only if all earlier stages
\* failed, and returns at the first stage that works, named in strategy_used.
C28_FillLadder ==
    (pc = "acted" /\ act_facts.tool = "fill") =>
        \E stages \in {FillStages(act_facts)} :
        \E order \in {<<"standard_fill", "multi_strategy", "vision_locator",
                         "accessibility_locator", "js_locate", "common_selectors">>} :
           /\ Len(stages) <= Len(order)
           /\ \A n \in 1..Len(stages) : stages[n] = order[n]
           /\ Len(stages) > 1 => WaitTimesOut(act_facts)
           /\ \A n \in 2..(Len(stages) - 1) : stages[n] \notin act_facts.works
           /\ (Len(stages) > 1 /\ act_result.status = "success") =>
                 /\ act_result.strategy_used = stages[Len(stages)]
                 /\ act_result.strategy_used \in act_facts.works
           /\ (Len(stages) > 1 /\ act_result.status # "success") =>
                 /\ Len(stages) = Len(order)
                 /\ act_facts.works \cap SeqRange(order) = {}

\* C28 witness: after a timeout the third stage is the first that works,
\* and a later stage that would work is not run
C28_Witness ==
    /\ pc = "acted" /\ act_facts.tool = "fill"
    /\ act_facts.works = {"vision_locator", "common_selectors"}
    /\ FillStages(act_facts) = <<"standard_fill", "multi_strategy", "vision_locator">>
    /\ act_result.status = "success"
    /\ act_result.strategy_used = "vision_locator"

(***************************************************************************)
(* Properties of the text locator                                          *)
(***************************************************************************)
\* the edit distance of two texts, by their first characters
RECURSIVE EditDistance(_, _)
EditDistance(s, t) ==
    IF s = <<>> THEN Len(t)
    ELSE IF t = <<>> THEN Len(s)
    ELSE IF Head(s) = Head(t) THEN EditDistance(Tail(s), Tail(t))
    ELSE 1 + CHOOSE d \in {EditDistance(Tail(s), t), EditDistance(s, Tail(t)),
                           EditDistance(Tail(s), Tail(t))} :
                \A other \in {EditDistance(Tail(s), t), EditDistance(s, Tail(t)),
                              EditDistance(Tail(s), Tail(t))} : d <= other

\* the score of two texts as the description of the locator gives it, in
\* sixtieths
Similarity(a, b) ==
    LET Lower(s) == [i \in 1..Len(s) |-> IF s[i] = "A" THEN "a" ELSE s[i]]
        Contains(s, t) == \E k \in 0..Len(s), n \in 0..Len(s) :
                             k + n <= Len(s) /\ SubSeq(s, k + 1, k + n) = t
        maxLen == IF Len(a) >= Len(b) THEN Len(a) ELSE Len(b)
    IN IF Lower(a) = Lower(b) THEN 60
       ELSE IF Contains(Lower(a), Lower(b)) \/ Contains(Lower(b), Lower(a)) THEN 48
       ELSE (60 * (maxLen - EditDistance(Lower(a), Lower(b)))) \div maxLen

\* the best score of an element over its text sources, 0 without a source
ElementScore(element) ==
    LET scores == {Similarity(element.textSources[k], loc_facts.text) :
                      k \in {n \in 1..Len(element.textSources) :
                                 element.textSources[n] # <<>>}}
    IN IF scores = {} THEN 0
       ELSE CHOOSE best \in scores : \A other \in scores : other <= best

\* the place in the document of the element of a candidate
DocumentPosition(candidate) ==
    CHOOSE p \in 1..Len(loc_facts.page) :
        /\ loc_facts.page[p].tagName = candidate.element.tagName
        /\ Cardinality({q \in 1..(p - 1) :
                           loc_facts.page[q].tagName = candidate.element.tagName})
              = candidate.element.index

C30_TiesInDomOrder ==
    (pc = "text_located" /\ loc_result.status = "success") =>
        /\ \A i, j \in 1..Len(loc_result.all_candidates) :
              i < j =>
                 /\ loc_result.all_candidates[i].score >= loc_result.all_candidates[j].score
                 /\ loc_result.all_candidates[i].score = loc_result.all_candidates[j].score
                       => DocumentPosition(loc_result.all_candidates[i])
                            < DocumentPosition(loc_result.all_candidates[j])
        /\ \A p \in 1..Len(loc_facts.page) :
              (loc_facts.page[p].visible /\ ElementScore(loc_facts.page[p]) > 18) =>
                 \/ ElementScore(loc_facts.page[p]) < loc_result.best_match.score
                 \/ /\ ElementScore(loc_facts.page[p]) = loc_result.best_match.score
                    /\ DocumentPosition(loc_result.best_match) <= p
C32_SuccessMeansWritten ==
    (pc = "acted" /\ act_facts.tool = "fill" /\ act_result.status = "success") =>
        Filled(act_facts) # {}
(***************************************************************************)
(* Properties of the session under two page operations at once             *)
(***************************************************************************)
\* C33: when two page operations started at once have both got their page,
\* one browser and one context have been launched in all, the list of
\* pages holds one page for every index up to the largest index asked for
\* and no more, and every browser, context and page that was created is
\* the one the session refers to.
C33_OneBrowserOnePagePerIndex ==
    (pc = "race" /\ \A t \in 1..2 : op.tasks[t].at = "done") =>
        LET largest == IF op.tasks[1].page_index >= op.tasks[2].page_index
                       THEN op.tasks[1].page_index ELSE op.tasks[2].page_index
        IN /\ world.launches = 1
           /\ session.browser = 1
           /\ session.context = 1
           /\ Len(session.pages) = largest + 1
           /\ world.created = Len(session.pages)
           /\ \A i \in 1..Len(session.pages) : session.pages[i].context = session.context
(***************************************************************************)
(* Properties of the conversation                                          *)
(***************************************************************************)
\* C34: the conversation history the decision source is sent starts with a
\* user message and alternates user and assistant messages, whatever steps
\* succeeded, failed, were unknown actions or raised.
C34_RolesAlternate ==
    \A i \in 1..Len(conversation_history) :
        conversation_history[i].role = (IF i % 2 = 1 THEN "user" ELSE "assistant")
(***************************************************************************)
(* Properties of the end of a session                                      *)
(***************************************************************************)
\* C35: after SophisticatedAgentClient.close() the browser, the context and
\* the Playwright driver started for the session are shut down: the tools
\* of the agent own no browser, no context and no driver.
C35_AgentCloseShutsDown ==
    (pc = "session" /\ op.name = "agent_close") =>
        /\ session.browser = 0
        /\ session.context = 0
        /\ ~session.playwright
        /\ ~session.browser_initialized

(***************************************************************************)
(* Properties of the code generation sessions                              *)
(***************************************************************************)
\* C36: start_codegen_session always returns an id different from the id of
\* every session stored when it is called, also after sessions were ended
C36_FreshSessionId ==
    [][(op'.name = "start_codegen_session" /\ world'.ops # world.ops)
         => tool_result'.session.id \notin DOMAIN codegen_sessions]_vars

(***************************************************************************)
(* Properties of playwright_close                                          *)
(***************************************************************************)
\* C37: playwright_close(i) with a valid index whose close does not raise
\* succeeds and removes exactly the page at index i, the other pages keeping
\* their order; with an invalid index, or when the close raises, it returns
\* an error and leaves the collection as it was; it never creates a page
C37_CloseRemovesExactlyThePage ==
    op.name = "playwright_close" =>
        LET before == op.before.pages
            i == op.page_index
            valid == i >= 0 /\ i < Len(before)
        IN /\ world.created = op.world_before.created
           /\ tool_result.status \in {"success", "error"}
           /\ tool_result.status = "success" <=> (valid /\ op.raises = {})
           /\ tool_result.status = "success" =>
                 /\ Len(session.pages) = Len(before) - 1
                 /\ \A k \in 1..Len(session.pages) :
                       session.pages[k] = IF k <= i THEN before[k] ELSE before[k + 1]
           /\ tool_result.status = "error" => session.pages = before

\* C37 witness: the first of two pages has been closed
C37_Witness ==
    /\ op.name = "playwright_close"
    /\ op.page_index = 0
    /\ Len(op.before.pages) = 2
    /\ tool_result.status = "success"
    /\ session.pages = <<op.before.pages[2]>>

(***************************************************************************)
(* Properties of the console log                                           *)
(***************************************************************************)
\* C38: playwright_console_logs(page_index, count) returns at most count
\* entries, the most recent ones, in the order of their capture, and only
\* entries written by the page at page_index; and every page of the
\* collection has a listener for its console messages
C38_LogsOfThePage ==
    (op.name = "playwright_console_logs" /\ tool_result.status = "success") =>
        LET page == session.pages[op.page_index + 1]
            own == SelectSeq(console_logs, LAMBDA log : log.from = page.id)
            n == IF tool_result.count < Len(own) THEN tool_result.count ELSE Len(own)
        IN /\ Len(tool_result.logs) <= tool_result.count
           /\ tool_result.logs = SubSeq(own, Len(own) - n + 1, Len(own))
           /\ \A k \in 1..Len(session.pages) : session.pages[k].id \in world.listening

(***************************************************************************)
(* Properties of playwright_screenshot                                     *)
(***************************************************************************)
\* C39: playwright_screenshot tries at most max_attempts captures and always
\* returns a record whose status is success, partial_success or error, for
\* every max_attempts and every pattern of failures
C39_BoundedAttemptsAndARecord ==
    pc = "screenshot_done" =>
        /\ act_result.status \in {"success", "partial_success", "error"}
        /\ act_result.attempts <= act_facts.max_attempts
        /\ act_result.captures <= act_facts.max_attempts

====
